---- MODULE Spec2Model ----
(***************************************************************************)
(* Round coordination and task transport of Fed-BioMed: the researcher's   *)
(* Job (round dispatcher) and the gRPC researcher servicer / node client   *)
(* (chunked transport).                                                    *)
(***************************************************************************)
EXTENDS Integers, Sequences, FiniteSets, TLC

(***************************************************************************)
(* Bounds of the model                                                     *)
(***************************************************************************)
MaxMsgs == 3

MaxCommMsgs == 2

MaxTaskLen == 4

MaxFrameBytes == 2

MaxPolls == 2

MaxFrames == 3

MaxChunks == 2

MaxHandlers == 2

MaxSends == 2

MaxFeedbacks == 1

MaxErrors == 2

MaxRequests == 2

MaxApiCalls == 2

MaxAnswers == 3

MaxManagerCalls == 3

MaxWorkflowCalls == 2

MaxSetups == 2

MaxRound == 2

MaxExtraWait == 2

MAX_GRPC_SERVER_SETUP_TIMEOUT == 20

(***************************************************************************)
(* Python helpers                                                          *)
(***************************************************************************)
\* None where a value (a string) is expected
None == "None"

\* None where a dict is expected
NoneDict == [none |-> "None"]

IsNone(d) == DOMAIN d = {"none"}

EmptyDict == <<>>

Range(s) == {s[i] : i \in DOMAIN s}

\* list.remove(x): delete the first occurrence of x
RECURSIVE ListRemove(_, _)
ListRemove(s, x) ==
    IF s = <<>> THEN <<>>
    ELSE IF Head(s) = x THEN Tail(s)
    ELSE <<Head(s)>> \o ListRemove(Tail(s), x)

\* dict.get(key) with default None
DictGet(d, k) == IF k \in DOMAIN d THEN d[k] ELSE None

\* truth value of a Python value: None and empty objects ("v0") are falsy
Truthy(v) == v \notin {None, "v0"}

\* truth value of a dict
DictTruthy(d) == DOMAIN d # {}

(***************************************************************************)
(* Identities                                                              *)
(***************************************************************************)
Nodes == {"A", "B", "C"}

NodeOrder == <<"A", "B", "C">>

\* environ['RESEARCHER_ID'] and a foreign researcher
RESEARCHER_ID == "researcher"

ResearcherIds == {RESEARCHER_ID, "other_researcher"}

\* Job._id and the id of another job
JobId == "job"

JobIds == {JobId, "other_job"}

\* the lists of node ids a Job can be constructed with
RECURSIVE SubList(_, _)
SubList(s, keep) ==
    IF s = <<>> THEN <<>>
    ELSE IF Head(s) \in keep THEN <<Head(s)>> \o SubList(Tail(s), keep)
    ELSE SubList(Tail(s), keep)

NodeLists == {SubList(NodeOrder, S) : S \in SUBSET Nodes}

(***************************************************************************)
(* Optimizer auxiliary variables                                           *)
(***************************************************************************)
Modules == {"scaffold", "module"}

\* optim_aux_var of a train reply: {module: value}
ReplyAuxVars ==
    {EmptyDict, [m \in {"scaffold"} |-> "v1"], [m \in {"scaffold"} |-> "v2"],
     [m \in {"module"} |-> "v1"]}

(***************************************************************************)
(* Messages received by the researcher (commands 'train' and 'error')      *)
(***************************************************************************)
TrainReply(n, r, j, ok, av) ==
    [command |-> "train", node_id |-> n, researcher_id |-> r, job_id |-> j,
     success |-> ok, optim_aux_var |-> av]

ErrorMessage(n, r) ==
    [command |-> "error", node_id |-> n, researcher_id |-> r, job_id |-> None,
     success |-> FALSE, optim_aux_var |-> EmptyDict]

Messages ==
    {TrainReply(n, RESEARCHER_ID, JobId, TRUE, av) : n \in Nodes, av \in ReplyAuxVars}
    \cup {TrainReply(n, r, j, FALSE, EmptyDict) : n \in Nodes, r \in ResearcherIds, j \in JobIds}
    \cup {TrainReply(n, "other_researcher", JobId, TRUE, EmptyDict) : n \in Nodes}
    \cup {TrainReply(n, RESEARCHER_ID, "other_job", TRUE, EmptyDict) : n \in Nodes}
    \cup {ErrorMessage(n, r) : n \in Nodes, r \in ResearcherIds}

(***************************************************************************)
(* State                                                                   *)
(***************************************************************************)
VARIABLES
    nodes,              \* Job._nodes
    training_replies,   \* Job._training_replies[round_]
    pc,                 \* position of the researcher's control thread
    participating,      \* history: set(Job._nodes) when the round was dispatched
    outcome,            \* history: what each node delivered during the round
    nmsgs,              \* number of messages handled so far
    optim_aux_var,      \* argument of start_nodes_training_round
    do_training,        \* argument of start_nodes_training_round
    requests,           \* train requests sent: node -> aux_vars
    aux_var,            \* result of extract_received_optimizer_aux_var_from_round
    saved_state,        \* result of Job.save_state, or None
    comm,               \* two runs of the wait loop on the same messages
    max_bytes,          \* MAX_MESSAGE_BYTES_LENGTH
    polls,              \* number of GetTaskUnary calls issued by the node
    sent_tasks,         \* history: the serialized tasks streamed by GetTaskUnary
    task_frames,        \* history: the frames yielded by the last GetTaskUnary
    task_stream,        \* frames yielded by GetTaskUnary and not yet read
    node_pc,            \* position of ResearcherClient.get_tasks
    node_reply,         \* reply buffer of ResearcherClient.get_tasks
    on_message_calls,   \* buffers handed to Serializer.loads / on_message by the node
    shutdown,           \* SHUTDOWN_EVENT.is_set()
    errors,             \* number of polls ended by a grpc.aio.AioRpcError
    streak,             \* history: errors since the last poll that was answered
    last_error,         \* history: status code of the last AioRpcError
    backoff,            \* history: seconds slept after the last AioRpcError
    stop_raised,        \* the exception ResearcherClient.stop raised, or None
    listener_pc,        \* position of ResearcherClient.send_queue_listener
    srv_pc,             \* position of ResearcherServicer.ReplyTask
    srv_reply,          \* reply buffer of ResearcherServicer.ReplyTask
    cur_frames,         \* history: the frames received since the last completed message
    nframes,            \* number of frames received by ReplyTask
    srv_dispatched,     \* history: messages dispatched so far on the current stream
    on_reply_calls,     \* buffers decoded and dispatched to NodeAgent.on_reply
    agent_store,        \* AgentStore: node id -> agent
    agents,             \* the NodeAgent objects created so far
    handlers,           \* the GetTaskUnary handler coroutines started so far
    last_op,            \* history: the last send / broadcast call
    sent,               \* history: the messages passed to send / broadcast per node
    returned,           \* history: the tasks returned to the polls of each node
    feedback_reqs,      \* history: the Feedback requests handled
    feedback_calls,     \* calls of the on_message callback made by Feedback
    tasks_queue,        \* Node.tasks_queue
    calls,              \* history: the calls of on_message and the task_manager iterations
    nrequests,          \* number of requests received by Node.on_message
    tasks_done,         \* number of tasks_queue.task_done() calls
    tm_raised,          \* the exception that ended the loop of Node.task_manager, or None
    is_started,         \* GrpcServer._is_started.is_set()
    thread,             \* position of the server thread (GrpcServer._run)
    run_caught,         \* the exception GrpcServer._run caught and logged, or None
    start_pc,           \* position of the caller in GrpcServer.start
    sleep_,             \* the local sleep_ of GrpcServer.start
    GPRC_SERVER_SETUP_TIMEOUT, \* GRPC_CLIENT_CONN_RETRY_TIMEOUT + 1, fixed when the module is loaded
    start_raised,       \* the exception GrpcServer.start raised to its caller, or None
    api_last,           \* history: the last call of send, broadcast, get_all_nodes, get_node, is_alive
    napi,               \* number of such calls
    secagg,             \* SecaggContext: parties, requests sent, answers received, result of setup
    manager,            \* the class of the secagg manager: "servkey" or "biprime"
    table,              \* the entries of the table of the manager, in insertion order
    mgr_last,           \* history: the last call of add, get or remove, the table before it and its result
    mgr_ncalls,         \* number of calls made
    wf_tags,            \* FederatedWorkflow._tags: None or the tags
    nodes_filter,       \* FederatedWorkflow._nodes_filter: None or the node ids
    fds,                \* FederatedWorkflow._fds: None or the training data
    wf_last,            \* history: the last setter called, the attributes before it and its result
    wf_ncalls,          \* number of setters called
    round_replies,      \* Job._training_replies: round number -> replies of the round
    round_replies0,     \* history: Job._training_replies before _save_training_replies
    bkpt,               \* the value returned by _save_training_replies
    loaded,             \* the result of _load_training_replies
    bk_pc               \* position: replies recorded, saved, loaded

jobVars == <<nodes, training_replies, pc, participating, outcome, nmsgs,
             optim_aux_var, do_training, requests, aux_var, saved_state>>

commVars == <<comm>>

retryVars == <<shutdown, errors, streak, last_error, backoff, stop_raised, listener_pc>>

taskVars == <<max_bytes, polls, sent_tasks, task_frames, task_stream, node_pc, node_reply,
              on_message_calls, retryVars>>

replyVars == <<srv_pc, srv_reply, cur_frames, nframes, srv_dispatched, on_reply_calls>>

serverVars == <<agent_store, agents, handlers, last_op, sent, returned, feedback_reqs,
                feedback_calls>>

nodeVars == <<tasks_queue, calls, nrequests, tasks_done, tm_raised>>

startVars == <<sleep_, GPRC_SERVER_SETUP_TIMEOUT>>

grpcVars == <<is_started, thread, run_caught, start_pc, start_raised, api_last, napi, startVars>>

secaggVars == <<secagg>>

managerVars == <<manager, table, mgr_last, mgr_ncalls>>

workflowVars == <<wf_tags, nodes_filter, fds, wf_last, wf_ncalls>>

breakpointVars == <<round_replies, round_replies0, bkpt, loaded, bk_pc>>

vars == <<jobVars, commVars, taskVars, replyVars,
          serverVars, nodeVars, grpcVars, secaggVars, managerVars, workflowVars, breakpointVars>>

nonJobVars == <<commVars, taskVars, replyVars, serverVars,
                nodeVars, grpcVars, secaggVars, managerVars, workflowVars, breakpointVars>>

nonCommVars == <<jobVars, taskVars, replyVars, serverVars,
                 nodeVars, grpcVars, secaggVars, managerVars, workflowVars, breakpointVars>>

nonTaskVars == <<jobVars, commVars, replyVars, serverVars,
                 nodeVars, grpcVars, secaggVars, managerVars, workflowVars, breakpointVars>>

nonReplyVars == <<jobVars, commVars, taskVars, serverVars,
                  nodeVars, grpcVars, secaggVars, managerVars, workflowVars, breakpointVars>>

nonServerVars == <<jobVars, commVars, taskVars, replyVars,
                   nodeVars, grpcVars, secaggVars, managerVars, workflowVars, breakpointVars>>

nonServerGrpcVars == <<jobVars, commVars, taskVars,
                       replyVars, nodeVars, secaggVars, managerVars, workflowVars, breakpointVars>>

nonSecaggVars == <<jobVars, commVars, taskVars, replyVars,
                   serverVars, nodeVars, grpcVars, managerVars, workflowVars, breakpointVars>>

nonManagerVars == <<jobVars, commVars, taskVars, replyVars, serverVars,
                    nodeVars, grpcVars, secaggVars, workflowVars, breakpointVars>>

nonWorkflowVars == <<jobVars, commVars, taskVars, replyVars, serverVars, nodeVars, grpcVars,
                    secaggVars, managerVars, breakpointVars>>

nonBreakpointVars == <<jobVars, commVars, taskVars, replyVars, serverVars, nodeVars, grpcVars,
                      secaggVars, managerVars, workflowVars>>

nonNodeVars == <<jobVars, commVars, taskVars, replyVars,
                 serverVars, grpcVars, secaggVars, managerVars, workflowVars, breakpointVars>>

(***************************************************************************)
(* Job.waiting_for_nodes                                                   *)
(***************************************************************************)
NodesDone(responses) == {responses[i].node_id : i \in DOMAIN responses}

\* variant: the loop stops as soon as some node has a recorded reply
waiting_for_nodes_AnyReply(responses, nodes_) ==
    NodesDone(responses) = {} /\ Range(nodes_) # {}

waiting_for_nodes(responses, nodes_) == ~(NodesDone(responses) = Range(nodes_))

(***************************************************************************)
(* Body of the for loop of Job._get_training_testing_results, applied to   *)
(* one message m in job state st = [nodes, replies]                        *)
(***************************************************************************)
\* the Responses entry recorded for a successful train reply: the fields the
\* round dispatcher and the breakpoint read
Response(m) ==
    [node_id |-> m.node_id, params |-> "params", optim_aux_var |-> m.optim_aux_var]

\* variant: a reply with success = False is skipped, its node is not removed
HandleMessage_KeepFailed(st, m) ==
    IF m.command = "error"
    THEN IF m.node_id \notin Range(st.nodes)
         THEN st
         ELSE [st EXCEPT !.nodes = ListRemove(st.nodes, m.node_id)]
    ELSE IF m.researcher_id # RESEARCHER_ID \/ m.job_id # JobId
            \/ m.node_id \notin Range(st.nodes)
         THEN st
    ELSE IF ~m.success
         THEN st
    ELSE [st EXCEPT !.replies = Append(st.replies, Response(m))]

\* variant: train replies are not filtered on the node list
HandleMessage_NoListCheck(st, m) ==
    IF m.command = "error"
    THEN IF m.node_id \notin Range(st.nodes)
         THEN st
         ELSE [st EXCEPT !.nodes = ListRemove(st.nodes, m.node_id)]
    ELSE IF m.researcher_id # RESEARCHER_ID \/ m.job_id # JobId
         THEN st
    ELSE IF ~m.success
         THEN [st EXCEPT !.nodes = ListRemove(st.nodes, m.node_id)]
    ELSE [st EXCEPT !.replies = Append(st.replies, Response(m))]

HandleMessage(st, m) ==
    IF m.command = "error"
    THEN IF m.node_id \notin Range(st.nodes)
         THEN st
         ELSE [st EXCEPT !.nodes = ListRemove(st.nodes, m.node_id)]
    ELSE IF m.researcher_id # RESEARCHER_ID \/ m.job_id # JobId
            \/ m.node_id \notin Range(st.nodes)
         THEN st
    ELSE IF ~m.success
         THEN [st EXCEPT !.nodes = ListRemove(st.nodes, m.node_id)]
    ELSE [st EXCEPT !.replies = Append(st.replies, Response(m))]

(***************************************************************************)
(* Job._prepare_agg_optimizer_aux_var                                      *)
(***************************************************************************)
\* the modules of aux_var that hold a (truthy) entry for node_id
NodeModules(av, node_id) == {mod \in DOMAIN av : Truthy(DictGet(av[mod], node_id))}

RECURSIVE PrepareLoop(_, _, _)
PrepareLoop(av, nodes_, acc) ==
    IF nodes_ = <<>> THEN acc
    ELSE LET node_id == Head(nodes_)
             own     == NodeModules(av, node_id)
             shared  == (DOMAIN av \ own) \cup DOMAIN acc.aux_shared
         IN  PrepareLoop(av, Tail(nodes_),
                 [aux_shared |-> [mod \in shared |->
                                     IF mod \in DOMAIN acc.aux_shared
                                     THEN acc.aux_shared[mod] ELSE av[mod]],
                  aux_bynode |-> [n \in DOMAIN acc.aux_bynode \cup {node_id} |->
                                     IF n = node_id
                                     THEN [mod \in own |-> av[mod][node_id]]
                                     ELSE acc.aux_bynode[n]]])

prepare_agg_optimizer_aux_var(av, nodes_) ==
    PrepareLoop(av, nodes_, [aux_shared |-> EmptyDict, aux_bynode |-> EmptyDict])

(***************************************************************************)
(* Job.extract_received_optimizer_aux_var_from_round                       *)
(***************************************************************************)
RECURSIVE ExtractLoop(_, _)
ExtractLoop(replies, acc) ==
    IF replies = <<>> THEN acc
    ELSE LET reply   == Head(replies)
             node_id == reply.node_id
             node_av == reply.optim_aux_var
             mods    == DOMAIN acc \cup DOMAIN node_av
         IN  ExtractLoop(Tail(replies),
                 [module \in mods |->
                     IF module \in DOMAIN node_av
                     THEN LET old == IF module \in DOMAIN acc THEN acc[module] ELSE EmptyDict
                          IN  [n \in DOMAIN old \cup {node_id} |->
                                  IF n = node_id THEN node_av[module] ELSE old[n]]
                     ELSE acc[module]])

extract_received_optimizer_aux_var_from_round(replies) == ExtractLoop(replies, EmptyDict)

(***************************************************************************)
(* Actions of the round dispatcher                                         *)
(***************************************************************************)
\* Job.start_nodes_training_round up to the call of _get_training_testing_results
StartRound ==
    /\ pc = "init"
    /\ LET prep == IF do_training /\ DictTruthy(optim_aux_var)
                   THEN prepare_agg_optimizer_aux_var(optim_aux_var, nodes)
                   ELSE [aux_shared |-> NoneDict, aux_bynode |-> EmptyDict]
       IN  requests' = [node \in Range(nodes) |->
                            <<prep.aux_shared,
                              IF node \in DOMAIN prep.aux_bynode
                              THEN prep.aux_bynode[node] ELSE NoneDict>>]
    /\ participating' = Range(nodes)
    /\ training_replies' = <<>>
    /\ pc' = "while"
    /\ UNCHANGED <<nodes, outcome, nmsgs, optim_aux_var, do_training, aux_var,
                   saved_state>>
    /\ UNCHANGED nonJobVars

\* the while test: either get_responses returns the next batch, or the loop ends
WhileTest ==
    /\ pc = "while"
    /\ pc' = IF waiting_for_nodes(training_replies, nodes) THEN "for" ELSE "returned"
    /\ UNCHANGED <<nodes, training_replies, participating, outcome, nmsgs,
                   optim_aux_var, do_training, requests, aux_var, saved_state>>
    /\ UNCHANGED nonJobVars

Kind(m) ==
    IF m.command = "error" THEN "error"
    ELSE IF m.success THEN "ok" ELSE "failed"

\* one iteration of the for loop over models_done.data()
ForBody(m) ==
    /\ pc = "for"
    /\ nmsgs < MaxMsgs
    /\ LET st == HandleMessage([nodes |-> nodes, replies |-> training_replies], m)
       IN  /\ nodes' = st.nodes
           /\ training_replies' = st.replies
    /\ outcome' = [outcome EXCEPT ![m.node_id] = Append(@, Kind(m))]
    /\ nmsgs' = nmsgs + 1
    /\ UNCHANGED <<pc, participating, optim_aux_var, do_training, requests, aux_var,
                   saved_state>>
    /\ UNCHANGED nonJobVars

\* models_done is exhausted: back to the while test
EndFor ==
    /\ pc = "for"
    /\ pc' = "while"
    /\ UNCHANGED <<nodes, training_replies, participating, outcome, nmsgs,
                   optim_aux_var, do_training, requests, aux_var, saved_state>>
    /\ UNCHANGED nonJobVars

\* Job.extract_received_optimizer_aux_var_from_round(round_) after the round
ExtractAuxVar ==
    /\ pc = "returned"
    /\ aux_var' = extract_received_optimizer_aux_var_from_round(training_replies)
    /\ pc' = "extracted"
    /\ UNCHANGED <<nodes, training_replies, participating, outcome, nmsgs,
                   optim_aux_var, do_training, requests, saved_state>>
    /\ UNCHANGED nonJobVars

(***************************************************************************)
(* Job.save_state: the state of the job written in a breakpoint            *)
(***************************************************************************)
\* del d[key]
DictDel(d, key) == [k \in DOMAIN d \ {key} |-> d[k]]

\* Job._save_training_replies for the replies of one round: a copy of each
\* reply without its 'params' entry
save_training_replies(replies) == [i \in DOMAIN replies |-> DictDel(replies[i], "params")]

\* Job.save_state: response['params_path'] is read for every saved reply
save_state(replies) ==
    LET saved == save_training_replies(replies)
    IN  IF \E i \in DOMAIN saved : "params_path" \notin DOMAIN saved[i]
        THEN [raised |-> "KeyError", training_replies |-> <<>>]
        ELSE [raised |-> None,
              training_replies |-> [i \in DOMAIN saved |->
                                       [saved[i] EXCEPT !["params_path"] = "link"]]]

\* the experiment saves a breakpoint after the round
SaveState ==
    /\ pc \in {"returned", "extracted"}
    /\ saved_state = NoneDict
    /\ saved_state' = save_state(training_replies)
    /\ UNCHANGED <<nodes, training_replies, pc, participating, outcome, nmsgs,
                   optim_aux_var, do_training, requests, aux_var>>
    /\ UNCHANGED nonJobVars

(***************************************************************************)
(* Chunked transport: ResearcherServicer.GetTaskUnary (split),             *)
(* ResearcherClient.get_tasks and ResearcherServicer.ReplyTask (reassembly)*)
(***************************************************************************)
Bytes == {0, 1}

ByteSeqs(k) == UNION {[1..i -> Bytes] : i \in 0..k}

\* len(range(0, stop, step)) for step > 0
RangeLen(stop, step) == IF stop <= 0 THEN 0 ELSE (stop + step - 1) \div step

\* range(0, stop, step) as a list
RangeStep(stop, step) == [i \in 1..RangeLen(stop, step) |-> (i - 1) * step]

\* b[start:stop]
Slice(b, start, stop) ==
    SubSeq(b, start + 1, IF stop < Len(b) THEN stop ELSE Len(b))

\* variant: the slice of each frame stops one byte early
GetTaskFrames_ShortSlice(task, max_len) ==
    LET chunk_range == RangeStep(Len(task), max_len)
    IN  [iter_ \in 1..Len(chunk_range) |->
            LET start == chunk_range[iter_]
                stop  == start + max_len - 1
            IN  [size |-> Len(chunk_range), iteration |-> iter_,
                 bytes_ |-> Slice(task, start, stop)]]

\* the frames yielded by GetTaskUnary for the serialized task
GetTaskFrames(task, max_len) ==
    LET chunk_range == RangeStep(Len(task), max_len)
    IN  [iter_ \in 1..Len(chunk_range) |->
            LET start == chunk_range[iter_]
                stop  == start + max_len
            IN  [size |-> Len(chunk_range), iteration |-> iter_,
                 bytes_ |-> Slice(task, start, stop)]]

\* the inner while test of get_tasks finds SHUTDOWN_EVENT not set
LoopTest ==
    /\ node_pc = "poll"
    /\ ~shutdown
    /\ polls < MaxPolls + errors
    /\ node_pc' = "issue"
    /\ UNCHANGED <<max_bytes, polls, sent_tasks, task_frames, task_stream, node_reply,
                   on_message_calls, retryVars>>
    /\ UNCHANGED nonTaskVars

\* get_tasks issues a GetTaskUnary call and prepares its reply buffer
Poll ==
    /\ node_pc = "issue"
    /\ polls' = polls + 1
    /\ node_reply' = <<>>
    /\ node_pc' = "wait"
    /\ UNCHANGED <<max_bytes, sent_tasks, task_frames, task_stream, on_message_calls,
                   retryVars>>
    /\ UNCHANGED nonTaskVars

\* the servicer gets a task from the node agent, serializes it to the bytes
\* task and streams it in frames
GetTaskUnary(task) ==
    /\ node_pc = "wait"
    /\ sent_tasks' = Append(sent_tasks, task)
    /\ task_frames' = GetTaskFrames(task, max_bytes)
    /\ task_stream' = GetTaskFrames(task, max_bytes)
    /\ node_pc' = "recv"
    /\ streak' = 0
    /\ UNCHANGED <<max_bytes, polls, node_reply, on_message_calls, shutdown, errors,
                   last_error, backoff, stop_raised, listener_pc>>
    /\ UNCHANGED nonTaskVars

\* one iteration of the async for loop of get_tasks
RecvAnswer ==
    /\ node_pc = "recv"
    /\ task_stream # <<>>
    /\ LET answer == Head(task_stream)
           reply  == node_reply \o answer.bytes_
       IN  IF answer.size # answer.iteration
           THEN /\ node_reply' = reply
                /\ UNCHANGED on_message_calls
           ELSE /\ on_message_calls' = Append(on_message_calls, reply)
                /\ node_reply' = <<>>
    /\ task_stream' = Tail(task_stream)
    /\ UNCHANGED <<max_bytes, polls, sent_tasks, task_frames, node_pc, retryVars>>
    /\ UNCHANGED nonTaskVars

\* the response stream is exhausted: get_tasks loops and polls again
StreamEnd ==
    /\ node_pc = "recv"
    /\ task_stream = <<>>
    /\ node_pc' = "poll"
    /\ UNCHANGED <<max_bytes, polls, sent_tasks, task_frames, task_stream, node_reply,
                   on_message_calls, retryVars>>
    /\ UNCHANGED nonTaskVars

\* status codes of a grpc.aio.AioRpcError
StatusCodes == {"DEADLINE_EXCEEDED", "UNAVAILABLE", "INTERNAL"}

\* asyncio.sleep(2)
RETRY_SLEEP == 2

\* variant: UNAVAILABLE is handled as any other status code
OnRpcError_UnavailableFatal(code) ==
    IF code = "DEADLINE_EXCEEDED"
    THEN [pc |-> "backoff", sleep |-> RETRY_SLEEP]
    ELSE [pc |-> "failed", sleep |-> 0]

\* the except clause of get_tasks: sleep and go on, or raise
OnRpcError(code) ==
    IF code = "DEADLINE_EXCEEDED"
    THEN [pc |-> "backoff", sleep |-> RETRY_SLEEP]
    ELSE IF code = "UNAVAILABLE"
    THEN [pc |-> "backoff", sleep |-> RETRY_SLEEP]
    ELSE [pc |-> "failed", sleep |-> 0]

\* the GetTaskUnary call of get_tasks ends with a grpc.aio.AioRpcError
RpcError(code) ==
    /\ node_pc \in {"wait", "recv"}
    /\ errors < MaxErrors
    /\ errors' = errors + 1
    /\ streak' = streak + 1
    /\ last_error' = code
    /\ node_pc' = OnRpcError(code).pc
    /\ backoff' = OnRpcError(code).sleep
    /\ task_stream' = <<>>
    /\ UNCHANGED <<max_bytes, polls, sent_tasks, task_frames, node_reply, on_message_calls,
                   shutdown, stop_raised, listener_pc>>
    /\ UNCHANGED nonTaskVars

\* asyncio.sleep returns: back to the test of the outer while loop
BackoffDone ==
    /\ node_pc = "backoff"
    /\ node_pc' = "poll"
    /\ UNCHANGED <<max_bytes, polls, sent_tasks, task_frames, task_stream, node_reply,
                   on_message_calls, retryVars>>
    /\ UNCHANGED nonTaskVars

\* the while tests of get_tasks find SHUTDOWN_EVENT set: get_tasks returns
LoopExit ==
    /\ node_pc = "poll"
    /\ shutdown
    /\ node_pc' = "stopped"
    /\ UNCHANGED <<max_bytes, polls, sent_tasks, task_frames, task_stream, node_reply,
                   on_message_calls, retryVars>>
    /\ UNCHANGED nonTaskVars

\* what self.__request_task_iterator.cancel() does to get_tasks: the
\* attribute exists once a poll was issued; a call that is pending is
\* cancelled, which ends get_tasks with CancelledError; a call that is over
\* is left as it is
Cancel(n_polls, position) ==
    IF n_polls = 0 THEN [raised |-> "AttributeError", pc |-> position]
    ELSE IF position \in {"wait", "recv"} THEN [raised |-> None, pc |-> "cancelled"]
    ELSE [raised |-> None, pc |-> position]

\* ResearcherClient.stop: the current GetTaskUnary call is cancelled, then
\* SHUTDOWN_EVENT is set
Stop ==
    /\ stop_raised = None
    /\ ~shutdown
    /\ node_pc \in {"poll", "issue", "wait", "recv", "backoff"}
    /\ LET c == Cancel(polls, node_pc)
       IN  /\ stop_raised' = c.raised
           /\ shutdown' = (c.raised = None)
           /\ node_pc' = c.pc
           /\ task_stream' = IF c.pc = "cancelled" THEN <<>> ELSE task_stream
    /\ UNCHANGED <<max_bytes, polls, sent_tasks, task_frames, node_reply, on_message_calls,
                   errors, streak, last_error, backoff, listener_pc>>
    /\ UNCHANGED nonTaskVars

\* the while test of send_queue_listener and self._send_queue.get_nowait()
ListenerTest(queued) ==
    /\ listener_pc = "test"
    /\ listener_pc' = IF shutdown THEN "stopped"
                      ELSE IF queued THEN "sending" ELSE "sleep"
    /\ UNCHANGED <<max_bytes, polls, sent_tasks, task_frames, task_stream, node_pc,
                   node_reply, on_message_calls, shutdown, errors, streak, last_error,
                   backoff, stop_raised>>
    /\ UNCHANGED nonTaskVars

\* asyncio.sleep(0.5) or the call of the stub returns: back to the while test
ListenerLoop ==
    /\ listener_pc \in {"sleep", "sending"}
    /\ listener_pc' = "test"
    /\ UNCHANGED <<max_bytes, polls, sent_tasks, task_frames, task_stream, node_pc,
                   node_reply, on_message_calls, shutdown, errors, streak, last_error,
                   backoff, stop_raised>>
    /\ UNCHANGED nonTaskVars

\* get_tasks ended with an exception: asyncio.run cancels the listener
Teardown ==
    /\ node_pc \in {"cancelled", "failed"}
    /\ listener_pc \in {"test", "sleep", "sending"}
    /\ listener_pc' = "cancelled"
    /\ UNCHANGED <<max_bytes, polls, sent_tasks, task_frames, task_stream, node_pc,
                   node_reply, on_message_calls, shutdown, errors, streak, last_error,
                   backoff, stop_raised>>
    /\ UNCHANGED nonTaskVars

\* the frames a node can put on a ReplyTask stream
Frames ==
    [size : 1..MaxChunks, iteration : 1..MaxChunks, bytes_ : ByteSeqs(1)]

\* a node opens a ReplyTask stream
ReplyTaskCall ==
    /\ srv_pc \in {"idle", "returned", "aborted"}
    /\ nframes < MaxFrames
    /\ srv_reply' = <<>>
    /\ cur_frames' = <<>>
    /\ srv_dispatched' = 0
    /\ srv_pc' = "iter"
    /\ UNCHANGED <<nframes, on_reply_calls>>
    /\ UNCHANGED nonReplyVars

\* variant: the buffer is not emptied after a completed message
PushFrame_NoReset(reply, answer) ==
    LET r == reply \o answer.bytes_
    IN  IF answer.size # answer.iteration
        THEN [reply |-> r, complete |-> <<>>]
        ELSE [reply |-> r, complete |-> <<r>>]

\* body of the async for loop of ReplyTask for one frame: the buffer kept for
\* the next frame and, upon the last frame, the buffer handed to Serializer.loads
PushFrame(reply, answer) ==
    LET r == reply \o answer.bytes_
    IN  IF answer.size # answer.iteration
        THEN [reply |-> r, complete |-> <<>>]
        ELSE [reply |-> <<>>, complete |-> <<r>>]

\* one iteration of the async for loop of ReplyTask; loads_ok tells whether
\* Serializer.loads accepts the completed buffer (it raises otherwise, and the
\* exception leaves the handler, which has no try block)
ReplyTaskAnswer(answer, loads_ok) ==
    /\ srv_pc = "iter"
    /\ nframes < MaxFrames
    /\ nframes' = nframes + 1
    /\ LET p    == PushFrame(srv_reply, answer)
           seen == Append(cur_frames, answer)
       IN  IF p.complete = <<>>
           THEN /\ loads_ok
                /\ srv_reply' = p.reply
                /\ cur_frames' = seen
                /\ UNCHANGED <<srv_pc, srv_dispatched, on_reply_calls>>
           ELSE IF loads_ok
           THEN /\ on_reply_calls' = Append(on_reply_calls,
                                            [reply |-> p.complete[1], frames |-> seen,
                                             nth |-> srv_dispatched + 1])
                /\ srv_dispatched' = srv_dispatched + 1
                /\ srv_reply' = p.reply
                /\ cur_frames' = <<>>
                /\ UNCHANGED srv_pc
           ELSE /\ srv_pc' = "aborted"
                /\ srv_reply' = p.complete[1]
                /\ cur_frames' = seen
                /\ UNCHANGED <<srv_dispatched, on_reply_calls>>
    /\ UNCHANGED nonReplyVars

\* variant: the bytes left in the buffer are dispatched when the stream ends
ReplyTaskReturn_Flush(buffer, frames, replies, dispatched) ==
    IF frames = <<>> THEN replies
    ELSE Append(replies, [reply |-> buffer, frames |-> frames, nth |-> dispatched + 1])

\* the on_reply calls made once the async for loop of ReplyTask is left: the
\* handler returns Empty() without a look at the buffer
ReplyTaskReturn(buffer, frames, replies, dispatched) == replies

\* request_iterator is exhausted: ReplyTask returns Empty()
ReplyTaskEnd ==
    /\ srv_pc = "iter"
    /\ srv_pc' = "returned"
    /\ on_reply_calls' = ReplyTaskReturn(srv_reply, cur_frames, on_reply_calls, srv_dispatched)
    /\ UNCHANGED <<srv_reply, cur_frames, nframes, srv_dispatched>>
    /\ UNCHANGED nonReplyVars

TaskInit ==
    /\ max_bytes \in 1..MaxFrameBytes
    /\ polls = 0
    /\ sent_tasks = <<>>
    /\ task_frames = <<>>
    /\ task_stream = <<>>
    /\ node_pc = "poll"
    /\ node_reply = <<>>
    /\ on_message_calls = <<>>
    /\ shutdown = FALSE
    /\ errors = 0
    /\ streak = 0
    /\ last_error = None
    /\ backoff = 0
    /\ stop_raised = None
    /\ listener_pc = "off"

\* a started client: get_tasks and send_queue_listener run side by side
ClientInit ==
    /\ max_bytes = 1
    /\ polls = 0
    /\ sent_tasks = <<>>
    /\ task_frames = <<>>
    /\ task_stream = <<>>
    /\ node_pc = "poll"
    /\ node_reply = <<>>
    /\ on_message_calls = <<>>
    /\ shutdown = FALSE
    /\ errors = 0
    /\ streak = 0
    /\ last_error = None
    /\ backoff = 0
    /\ stop_raised = None
    /\ listener_pc = "test"

TaskIdle ==
    /\ max_bytes = 1
    /\ polls = 0
    /\ sent_tasks = <<>>
    /\ task_frames = <<>>
    /\ task_stream = <<>>
    /\ node_pc = "idle"
    /\ node_reply = <<>>
    /\ on_message_calls = <<>>
    /\ shutdown = FALSE
    /\ errors = 0
    /\ streak = 0
    /\ last_error = None
    /\ backoff = 0
    /\ stop_raised = None
    /\ listener_pc = "off"

ReplyInit ==
    /\ srv_pc = "idle"
    /\ srv_reply = <<>>
    /\ cur_frames = <<>>
    /\ nframes = 0
    /\ srv_dispatched = 0
    /\ on_reply_calls = <<>>

ReplyIdle ==
    /\ srv_pc = "off"
    /\ srv_reply = <<>>
    /\ cur_frames = <<>>
    /\ nframes = 0
    /\ srv_dispatched = 0
    /\ on_reply_calls = <<>>

(***************************************************************************)
(* Researcher server: the agent store, the node agents, the GetTaskUnary   *)
(* handlers, send / broadcast and the Feedback handler                     *)
(***************************************************************************)
ServerNodes == {"A", "B"}

\* a task message is identified by the rank of the send / broadcast call
Tasks == 1..MaxSends

\* Serializer.dumps of a task message: messages of different rank differ
Dumps(t) == [i \in 1..t |-> t % 2]

NewAgent(node_id) == [id |-> node_id, status |-> "Active", queue |-> <<>>]

\* variant: a new agent is created on every call
StoreRetrieve_AlwaysNew(store, ags, node_id) ==
    [store  |-> [k \in DOMAIN store \cup {node_id} |->
                    IF k = node_id THEN Len(ags) + 1 ELSE store[k]],
     agents |-> Append(ags, NewAgent(node_id)),
     agent  |-> Len(ags) + 1]

\* AgentStore.retrieve / get_or_register: the agent of node_id, created and
\* registered first if node_id is unknown, in one atomic step
StoreRetrieve(store, ags, node_id) ==
    IF node_id \in DOMAIN store
    THEN [store |-> store, agents |-> ags, agent |-> store[node_id]]
    ELSE [store  |-> [k \in DOMAIN store \cup {node_id} |->
                        IF k = node_id THEN Len(ags) + 1 ELSE store[k]],
          agents |-> Append(ags, NewAgent(node_id)),
          agent  |-> Len(ags) + 1]

\* AgentStore.get: the agent of node_id, 0 (None) if there is none
StoreGet(store, node_id) == IF node_id \in DOMAIN store THEN store[node_id] ELSE 0

\* AgentStore.get_all: the registered agents
StoreGetAll(store) == {store[n] : n \in DOMAIN store}

\* variant: the message is queued whatever the status of the agent
AgentSend_AnyStatus(agent, message) == [agent EXCEPT !.queue = Append(@, message)]

\* NodeAgent.send: the message is appended to the queue of the agent; an agent
\* that is Disconnected is no target, its queue is kept as it is
AgentSend(agent, message) ==
    IF agent.status = "Disconnected"
    THEN agent
    ELSE [agent EXCEPT !.queue = Append(@, message)]

\* NodeAgent.set_active
AgentSetActive(agent) == [agent EXCEPT !.status = "Active"]

\* NodeAgent.get_task on a queue that holds a task: the oldest task
AgentGetTask(queue) == [task |-> Head(queue), queue |-> Tail(queue)]

\* variant: the message is sent to every agent
ServerSend_ToAll(store, ags, message, node_id) ==
    [i \in DOMAIN ags |-> AgentSend(ags[i], message)]

\* _GrpcAsyncServer.send
ServerSend(store, ags, message, node_id) ==
    LET agent == StoreGet(store, node_id)
    IN  IF agent = 0
        THEN ags
        ELSE [ags EXCEPT ![agent] = AgentSend(@, message)]

\* _GrpcAsyncServer.broadcast
ServerBroadcast(store, ags, message) ==
    [i \in DOMAIN ags |->
        IF i \in StoreGetAll(store) THEN AgentSend(ags[i], message) ELSE ags[i]]

\* variant: the handler streams every task of the queue
GetTaskUnaryTake_Drain(queue) == [tasks |-> queue, queue |-> <<>>]

\* the tasks a GetTaskUnary handler takes from the queue of the agent
GetTaskUnaryTake(queue) ==
    LET got == AgentGetTask(queue)
    IN  [tasks |-> <<got.task>>, queue |-> got.queue]

\* the frames the handler yields for the tasks it took
RECURSIVE StreamOf(_, _)
StreamOf(tasks, max_len) ==
    IF tasks = <<>> THEN <<>>
    ELSE GetTaskFrames(Dumps(Head(tasks)), max_len) \o StreamOf(Tail(tasks), max_len)

\* a node calls GetTaskUnary: a handler coroutine starts
GetTaskUnaryCall(n) ==
    /\ Len(handlers) < MaxHandlers
    /\ handlers' = Append(handlers, [node |-> n, pc |-> "retrieve", agent |-> 0,
                                     tasks |-> <<>>, frames |-> <<>>])
    /\ UNCHANGED <<agent_store, agents, last_op, sent, returned, feedback_reqs,
                   feedback_calls>>
    /\ UNCHANGED nonServerVars

\* await self._agent_store.retrieve(node_id=task_request["node"], context=context)
Retrieve(h) ==
    /\ handlers[h].pc = "retrieve"
    /\ LET r == StoreRetrieve(agent_store, agents, handlers[h].node)
       IN  /\ agent_store' = r.store
           /\ agents' = r.agents
           /\ handlers' = [handlers EXCEPT ![h].agent = r.agent, ![h].pc = "set_active"]
    /\ UNCHANGED <<last_op, sent, returned, feedback_reqs, feedback_calls>>
    /\ UNCHANGED nonServerVars

\* await node_agent.set_active()
SetActive(h) ==
    /\ handlers[h].pc = "set_active"
    /\ agents' = [agents EXCEPT ![handlers[h].agent] = AgentSetActive(@)]
    /\ handlers' = [handlers EXCEPT ![h].pc = "get_task"]
    /\ UNCHANGED <<agent_store, last_op, sent, returned, feedback_reqs, feedback_calls>>
    /\ UNCHANGED nonServerVars

\* await node_agent.get_task() returns; the task is serialized and streamed
GetTask(h) ==
    /\ handlers[h].pc = "get_task"
    /\ agents[handlers[h].agent].queue # <<>>
    /\ LET got == GetTaskUnaryTake(agents[handlers[h].agent].queue)
       IN  /\ agents' = [agents EXCEPT ![handlers[h].agent].queue = got.queue]
           /\ handlers' = [handlers EXCEPT ![h].tasks = got.tasks, ![h].pc = "done",
                                           ![h].frames = StreamOf(got.tasks, max_bytes)]
           /\ returned' = [returned EXCEPT ![handlers[h].node] = @ \o got.tasks]
    /\ UNCHANGED <<agent_store, last_op, sent, feedback_reqs, feedback_calls>>
    /\ UNCHANGED nonServerVars

\* history: what each registered node is sent, with the status of its agent
Record(ns, message) ==
    [n \in ServerNodes |->
        IF n \in ns /\ n \in DOMAIN agent_store
        THEN Append(sent[n], [msg |-> message,
                              status |-> agents[agent_store[n]].status])
        ELSE sent[n]]

\* the coroutine _GrpcAsyncServer.send(message, node_id) runs
SendCoroutine(node_id) ==
    /\ last_op.msg < MaxSends
    /\ LET message == last_op.msg + 1
       IN  /\ agents' = ServerSend(agent_store, agents, message, node_id)
           /\ sent' = Record({node_id}, message)
           /\ last_op' = [op |-> "send", msg |-> message]
    /\ UNCHANGED <<agent_store, handlers, returned, feedback_reqs, feedback_calls>>

\* the researcher calls send(message, node_id)
Send(node_id) ==
    /\ SendCoroutine(node_id)
    /\ UNCHANGED nonServerVars

\* the coroutine _GrpcAsyncServer.broadcast(message) runs
BroadcastCoroutine ==
    /\ last_op.msg < MaxSends
    /\ LET message == last_op.msg + 1
       IN  /\ agents' = ServerBroadcast(agent_store, agents, message)
           /\ sent' = Record(ServerNodes, message)
           /\ last_op' = [op |-> "broadcast", msg |-> message]
    /\ UNCHANGED <<agent_store, handlers, returned, feedback_reqs, feedback_calls>>

\* the researcher calls broadcast(message)
Broadcast ==
    /\ BroadcastCoroutine
    /\ UNCHANGED nonServerVars

\* the handler yields the next frame of its task; after the last one it ends
Yield(h) ==
    /\ handlers[h].pc = "done"
    /\ handlers[h].frames # <<>>
    /\ handlers' = [handlers EXCEPT ![h].frames = Tail(@),
                                    ![h].pc = IF Len(handlers[h].frames) = 1 THEN "end" ELSE "done"]
    /\ UNCHANGED <<agent_store, agents, last_op, sent, returned, feedback_reqs,
                   feedback_calls>>
    /\ UNCHANGED nonServerVars

\* variant: the task of an aborted stream goes back to the head of the queue
StreamAbort_Requeue(queue, tasks) == tasks \o queue

\* the queue of the agent after the stream of a handler that holds tasks was
\* aborted: GetTaskUnary has no handler for it, the queue is left as it is
StreamAbort(queue, tasks) == queue

\* the stream is aborted before the handler has yielded its last frame
Abort(h) ==
    /\ handlers[h].pc = "done"
    /\ handlers[h].frames # <<>>
    /\ handlers' = [handlers EXCEPT ![h].pc = "aborted"]
    /\ agents' = [agents EXCEPT ![handlers[h].agent].queue = StreamAbort(@, handlers[h].tasks)]
    /\ UNCHANGED <<agent_store, last_op, sent, returned, feedback_reqs, feedback_calls>>
    /\ UNCHANGED nonServerVars

\* the status checker of the agents: a node that has not polled for a while
\* becomes Inactive, then Disconnected
StatusCheck(i) ==
    /\ i \in DOMAIN agents
    /\ agents[i].status # "Disconnected"
    /\ agents' = [agents EXCEPT ![i].status =
                      IF @ = "Active" THEN "Inactive" ELSE "Disconnected"]
    /\ UNCHANGED <<agent_store, handlers, last_op, sent, returned, feedback_reqs,
                   feedback_calls>>
    /\ UNCHANGED nonServerVars

\* the FeedbackMessage requests of the nodes: one of log, scalar is set
FeedbackRequests == [one_of : {"log", "scalar"}, value : {"v1"}]

\* FeedbackMessage.from_proto(request)
FromProto(request) ==
    [f \in {"log", "scalar"} |-> IF f = request.one_of THEN request.value ELSE None]

\* MessageType.convert(one_of)
MessageTypeConvert(one_of) == IF one_of = "log" THEN "LOG" ELSE "SCALAR"

\* variant: the callback is not invoked
FeedbackCallbacks_None(request) == <<>>

\* the calls of self._on_message made by Feedback
FeedbackCallbacks(request) ==
    LET one_of   == request.one_of
        feedback == FromProto(request)
    IN  <<[message |-> feedback[one_of], type |-> MessageTypeConvert(one_of)]>>

\* ResearcherServicer.Feedback
Feedback(request) ==
    /\ Len(feedback_reqs) < MaxFeedbacks
    /\ feedback_reqs' = Append(feedback_reqs, request)
    /\ feedback_calls' = feedback_calls \o FeedbackCallbacks(request)
    /\ UNCHANGED <<agent_store, agents, handlers, last_op, sent, returned>>
    /\ UNCHANGED nonServerVars

ServerInit ==
    /\ agent_store = EmptyDict
    /\ agents = <<>>
    /\ handlers = <<>>
    /\ last_op = [op |-> "none", msg |-> 0]
    /\ sent = [n \in ServerNodes |-> <<>>]
    /\ returned = [n \in ServerNodes |-> <<>>]
    /\ feedback_reqs = <<>>
    /\ feedback_calls = <<>>

ServerIdle ==
    /\ agent_store = EmptyDict
    /\ agents = <<>>
    /\ handlers = <<>>
    /\ last_op = [op |-> "off", msg |-> 0]
    /\ sent = [n \in ServerNodes |-> <<>>]
    /\ returned = [n \in ServerNodes |-> <<>>]
    /\ feedback_reqs = <<>>
    /\ feedback_calls = <<>>

(***************************************************************************)
(* GrpcServer: the server thread (_run, _GrpcAsyncServer.start), start()   *)
(* in the thread of the caller, and the calls the caller makes             *)
(***************************************************************************)
\* what can fail in _GrpcAsyncServer.start before the started event is set:
\* the agent store cannot be created, the port cannot be bound
\* the values of GPRC_SERVER_SETUP_TIMEOUT: the server waits up to MaxExtraWait
\* more seconds after the first sleep
SetupTimeouts ==
    (MAX_GRPC_SERVER_SETUP_TIMEOUT - MaxExtraWait)..MAX_GRPC_SERVER_SETUP_TIMEOUT

StartFailures == {"AgentStoreError", "BindError"}

\* variant: the started event is not tested
ApiGuard_NoStartedTest(op, message_ok, started) ==
    IF op \in {"send", "broadcast"} /\ ~message_ok
    THEN "FedbiomedCommunicationError"
    ELSE None

\* the tests at the head of GrpcServer.send, broadcast, get_all_nodes,
\* get_node and is_alive: the exception raised, None if the call goes on
ApiGuard(op, message_ok, started) ==
    IF op \in {"send", "broadcast"} /\ ~message_ok
    THEN "FedbiomedCommunicationError"
    ELSE IF ~started THEN "FedbiomedCommunicationError"
    ELSE None

NoApiCall == [op |-> "none", message_ok |-> TRUE, started |-> FALSE, raised |-> None,
              scheduled |-> FALSE]

ApiCall(op, message_ok) ==
    LET raised == ApiGuard(op, message_ok, is_started)
    IN  [op |-> op, message_ok |-> message_ok, started |-> is_started, raised |-> raised,
         scheduled |-> raised = None /\ op # "is_alive"]

\* GrpcServer.start: the server thread is started, the caller sleeps
GrpcStart ==
    /\ start_pc = "idle"
    /\ thread' = "starting"
    /\ start_pc' = "sleep"
    /\ UNCHANGED <<is_started, run_caught, start_raised, api_last, napi>>
    /\ UNCHANGED serverVars
    /\ UNCHANGED startVars
    /\ UNCHANGED nonServerGrpcVars

\* _GrpcAsyncServer.start reaches self._is_started.set()
AsyncStarted ==
    /\ thread = "starting"
    /\ is_started' = TRUE
    /\ thread' = "serving"
    /\ UNCHANGED <<run_caught, start_pc, start_raised, api_last, napi>>
    /\ UNCHANGED serverVars
    /\ UNCHANGED startVars
    /\ UNCHANGED nonServerGrpcVars

\* _GrpcAsyncServer.start raises before the started event is set: _run
\* catches the exception, logs it and the thread ends
AsyncStartFails(failure) ==
    /\ thread = "starting"
    /\ thread' = "ended"
    /\ run_caught' = failure
    /\ UNCHANGED <<is_started, start_pc, start_raised, api_last, napi>>
    /\ UNCHANGED serverVars
    /\ UNCHANGED startVars
    /\ UNCHANGED nonServerGrpcVars

\* GrpcServer.start after time.sleep: the test len(self.get_all_nodes()) == 0
\* of the while loop
StartTest ==
    /\ start_pc \in {"sleep", "slept"}
    /\ LET raised == ApiGuard("get_all_nodes", TRUE, is_started)
       IN  IF raised # None
           THEN /\ start_pc' = "raised"
                /\ start_raised' = raised
           ELSE /\ start_pc' = IF StoreGetAll(agent_store) = {} THEN "wait" ELSE "returned"
                /\ UNCHANGED start_raised
    /\ UNCHANGED <<is_started, thread, run_caught, api_last, napi>>
    /\ UNCHANGED serverVars
    /\ UNCHANGED startVars
    /\ UNCHANGED nonServerGrpcVars

\* variant: the loop gives up one iteration later
StartGivesUp_Late(waits, setup_timeout) ==
    waits > MAX_GRPC_SERVER_SETUP_TIMEOUT - setup_timeout + 1

\* the test sleep_ > MAX_GRPC_SERVER_SETUP_TIMEOUT - GPRC_SERVER_SETUP_TIMEOUT
\* in the body of the while loop
StartGivesUp(waits, setup_timeout) ==
    waits > MAX_GRPC_SERVER_SETUP_TIMEOUT - setup_timeout

\* the while loop of GrpcServer.start gives up waiting for a node: the
\* warning is logged if get_all_nodes() is still empty, then break
StartBreak ==
    /\ start_pc = "wait"
    /\ StartGivesUp(sleep_, GPRC_SERVER_SETUP_TIMEOUT)
    /\ start_pc' = "returned"
    /\ UNCHANGED <<is_started, thread, run_caught, start_raised, api_last, napi>>
    /\ UNCHANGED serverVars
    /\ UNCHANGED startVars
    /\ UNCHANGED nonServerGrpcVars

\* the body of the while loop goes on: time.sleep(1); sleep_ += 1
StartWait ==
    /\ start_pc = "wait"
    /\ ~StartGivesUp(sleep_, GPRC_SERVER_SETUP_TIMEOUT)
    /\ sleep_' = sleep_ + 1
    /\ start_pc' = "slept"
    /\ UNCHANGED <<is_started, thread, run_caught, start_raised, api_last, napi>>
    /\ UNCHANGED GPRC_SERVER_SETUP_TIMEOUT
    /\ UNCHANGED serverVars
    /\ UNCHANGED nonServerGrpcVars

\* GrpcServer.send(message, node_id)
GrpcSend(message_ok, node_id) ==
    /\ napi < MaxApiCalls
    /\ napi' = napi + 1
    /\ api_last' = ApiCall("send", message_ok)
    /\ IF ApiGuard("send", message_ok, is_started) = None
       THEN SendCoroutine(node_id)
       ELSE UNCHANGED serverVars
    /\ UNCHANGED <<is_started, thread, run_caught, start_pc, start_raised>>
    /\ UNCHANGED startVars
    /\ UNCHANGED nonServerGrpcVars

\* GrpcServer.broadcast(message)
GrpcBroadcast(message_ok) ==
    /\ napi < MaxApiCalls
    /\ napi' = napi + 1
    /\ api_last' = ApiCall("broadcast", message_ok)
    /\ IF ApiGuard("broadcast", message_ok, is_started) = None
       THEN BroadcastCoroutine
       ELSE UNCHANGED serverVars
    /\ UNCHANGED <<is_started, thread, run_caught, start_pc, start_raised>>
    /\ UNCHANGED startVars
    /\ UNCHANGED nonServerGrpcVars

\* GrpcServer.get_all_nodes(), get_node(node_id), is_alive()
GrpcQuery(op) ==
    /\ napi < MaxApiCalls
    /\ napi' = napi + 1
    /\ api_last' = ApiCall(op, TRUE)
    /\ UNCHANGED <<is_started, thread, run_caught, start_pc, start_raised>>
    /\ UNCHANGED serverVars
    /\ UNCHANGED startVars
    /\ UNCHANGED nonServerGrpcVars

\* a node polls the server that is serving: its handler runs up to get_task
GrpcPoll(n) ==
    /\ thread = "serving"
    /\ \A h \in DOMAIN handlers : handlers[h].pc = "get_task"
    /\ GetTaskUnaryCall(n)

GrpcInit ==
    /\ is_started = FALSE
    /\ thread = "none"
    /\ run_caught = None
    /\ start_pc = "idle"
    /\ sleep_ = 0
    /\ GPRC_SERVER_SETUP_TIMEOUT \in SetupTimeouts
    /\ start_raised = None
    /\ api_last = NoApiCall
    /\ napi = 0

GrpcIdle ==
    /\ is_started = FALSE
    /\ thread = "off"
    /\ run_caught = None
    /\ start_pc = "off"
    /\ sleep_ = 0
    /\ GPRC_SERVER_SETUP_TIMEOUT = MAX_GRPC_SERVER_SETUP_TIMEOUT
    /\ start_raised = None
    /\ api_last = NoApiCall
    /\ napi = 0

(***************************************************************************)
(* SecaggContext.setup on the researcher                                   *)
(***************************************************************************)
\* the parties of a secagg context: this researcher first, then at least
\* two nodes
PartyLists == {<<RESEARCHER_ID>> \o nl : nl \in {l \in NodeLists : Len(l) >= 2}}

\* the secagg answers get_responses can return
SecaggAnswers == [node_id : Nodes, success : BOOLEAN]

\* the for loop over responses.data(): the status dict, or the error raised
\* for an answer of a node that is no party
RECURSIVE StatusLoop(_, _, _)
StatusLoop(status, responses, parties) ==
    IF responses = <<>> THEN [raised |-> None, status |-> status]
    ELSE LET resp == Head(responses)
         IN  IF resp.node_id \notin Range(parties)
             THEN [raised |-> "FedbiomedSecaggError", status |-> status]
             ELSE StatusLoop([k \in DOMAIN status \cup {resp.node_id} |->
                                 IF k = resp.node_id THEN resp.success ELSE status[k]],
                             Tail(responses), parties)

\* variant: one party that succeeded is enough
setup_AnySuccess(parties, responses) ==
    LET loop == StatusLoop([k \in {RESEARCHER_ID} |-> TRUE], responses, parties)
    IN  IF loop.raised # None
        THEN [raised |-> loop.raised, returned |-> FALSE]
        ELSE IF DOMAIN loop.status # Range(parties)
        THEN [raised |-> "FedbiomedSecaggError", returned |-> FALSE]
        ELSE [raised |-> None, returned |-> \E k \in DOMAIN loop.status : loop.status[k]]

\* SecaggContext.setup after get_responses returned: the exception raised, or
\* the value returned
setup(parties, responses) ==
    LET loop == StatusLoop([k \in {RESEARCHER_ID} |-> TRUE], responses, parties)
    IN  IF loop.raised # None
        THEN [raised |-> loop.raised, returned |-> FALSE]
        ELSE IF DOMAIN loop.status # Range(parties)
        THEN [raised |-> "FedbiomedSecaggError", returned |-> FALSE]
        ELSE [raised |-> None, returned |-> \A k \in DOMAIN loop.status : loop.status[k]]

\* self._status after setup: an answer of a node that is no party raises
\* before self._status is assigned
setup_status(status, parties, responses) ==
    LET loop == StatusLoop([k \in {RESEARCHER_ID} |-> TRUE], responses, parties)
    IN  IF loop.raised # None
        THEN status
        ELSE IF DOMAIN loop.status # Range(parties)
        THEN FALSE
        ELSE \A k \in DOMAIN loop.status : loop.status[k]

\* setup sends the secagg request to self._parties[1:]
SetupSend ==
    /\ secagg.stage = "init"
    /\ secagg' = [secagg EXCEPT !.stage = "sent", !.sent = Tail(secagg.parties)]
    /\ UNCHANGED nonSecaggVars

\* a node answers; get_responses will return the answer
SecaggAnswer(resp) ==
    /\ secagg.stage = "sent"
    /\ Len(secagg.responses) < MaxAnswers
    /\ secagg' = [secagg EXCEPT !.responses = Append(@, resp)]
    /\ UNCHANGED nonSecaggVars

\* setup reads the answers and returns or raises
SetupRead ==
    /\ secagg.stage = "sent"
    /\ secagg' = [stage |-> "done", parties |-> secagg.parties, sent |-> secagg.sent,
                  responses |-> secagg.responses,
                  status |-> setup_status(secagg.status, secagg.parties, secagg.responses),
                  nsetups |-> secagg.nsetups,
                  result |-> setup(secagg.parties, secagg.responses)]
    /\ UNCHANGED nonSecaggVars

\* setup is called again on the same object
SetupAgain ==
    /\ secagg.stage = "done"
    /\ secagg.nsetups < MaxSetups
    /\ secagg' = [stage |-> "init", parties |-> secagg.parties, sent |-> <<>>,
                  responses |-> <<>>, status |-> secagg.status,
                  nsetups |-> secagg.nsetups + 1]
    /\ UNCHANGED nonSecaggVars

SecaggInit ==
    \E parties \in PartyLists :
        secagg = [stage |-> "init", parties |-> parties, sent |-> <<>>, responses |-> <<>>,
                  status |-> FALSE, nsetups |-> 1]

SecaggIdle == secagg = [stage |-> "idle"]

(***************************************************************************)
(* Job._save_training_replies and Job._load_training_replies on the        *)
(* replies of several rounds                                               *)
(***************************************************************************)
\* the replies a round can have recorded
RoundReplies ==
    LET r(n) == Response(TrainReply(n, RESEARCHER_ID, JobId, TRUE, EmptyDict))
    IN  {<<>>, <<r("A")>>, <<r("A"), r("B")>>}

\* the values of Job._training_replies: the rounds run so far need not start
\* at 0 nor be contiguous
TrainingReplies == UNION {[rounds -> RoundReplies] : rounds \in SUBSET (0..MaxRound)}

\* training_replies.keys() as a list: the rounds in the order they were run
RECURSIVE Keys(_)
Keys(rounds) ==
    IF rounds = {} THEN <<>>
    ELSE LET first == CHOOSE r \in rounds : \A q \in rounds : r <= q
         IN  <<first>> \o Keys(rounds \ {first})

\* variant: the replies are stripped in place
Job_save_training_replies_InPlace(replies_by_round) ==
    LET keys == Keys(DOMAIN replies_by_round)
    IN  [returned |-> [i \in DOMAIN keys |-> save_training_replies(replies_by_round[keys[i]])],
         training_replies |-> [r \in DOMAIN replies_by_round |->
                                  save_training_replies(replies_by_round[r])]]

\* Job._save_training_replies: the list returned, one entry per round in the
\* order of the keys, and the argument after the call (the replies are
\* stripped on a deep copy)
Job_save_training_replies(replies_by_round) ==
    LET keys == Keys(DOMAIN replies_by_round)
    IN  [returned |-> [i \in DOMAIN keys |-> save_training_replies(replies_by_round[keys[i]])],
         training_replies |-> replies_by_round]

\* Job._load_training_replies: the entries of the list are numbered from 0;
\* node["params_path"] is read for every reply
Job_load_training_replies(bkpt_training_replies) ==
    IF \E i \in DOMAIN bkpt_training_replies : \E k \in DOMAIN bkpt_training_replies[i] :
          "params_path" \notin DOMAIN bkpt_training_replies[i][k]
    THEN [raised |-> "KeyError", training_replies |-> EmptyDict]
    ELSE [raised |-> None,
          training_replies |->
              [round_ \in 0..(Len(bkpt_training_replies) - 1) |->
                  [k \in DOMAIN bkpt_training_replies[round_ + 1] |->
                      [f \in DOMAIN bkpt_training_replies[round_ + 1][k] \cup {"params"} |->
                          IF f = "params" THEN "params"
                          ELSE bkpt_training_replies[round_ + 1][k][f]]]]]

\* self._save_training_replies(self._training_replies)
SaveReplies ==
    /\ bk_pc = "recorded"
    /\ LET r == Job_save_training_replies(round_replies)
       IN  /\ bkpt' = r.returned
           /\ round_replies' = r.training_replies
    /\ bk_pc' = "saved"
    /\ UNCHANGED <<round_replies0, loaded>>
    /\ UNCHANGED nonBreakpointVars

\* self._load_training_replies applied to the list that was saved
LoadReplies ==
    /\ bk_pc = "saved"
    /\ loaded' = Job_load_training_replies(bkpt)
    /\ bk_pc' = "loaded"
    /\ UNCHANGED <<round_replies, round_replies0, bkpt>>
    /\ UNCHANGED nonBreakpointVars

BreakpointInit ==
    /\ round_replies \in TrainingReplies
    /\ round_replies0 = round_replies
    /\ bkpt = <<>>
    /\ loaded = [raised |-> None, training_replies |-> EmptyDict]
    /\ bk_pc = "recorded"

BreakpointIdle ==
    /\ round_replies = EmptyDict
    /\ round_replies0 = EmptyDict
    /\ bkpt = <<>>
    /\ loaded = [raised |-> None, training_replies |-> EmptyDict]
    /\ bk_pc = "off"

(***************************************************************************)
(* Secagg managers: BaseSecaggManager, SecaggServkeyManager and            *)
(* SecaggBiprimeManager on their database table                            *)
(***************************************************************************)
SecaggIds == {"secagg_1", "secagg_2"}

\* the job_id argument of a call of the servkey manager: a Node may give None
ManagerJobIds == JobIds \cup {None}

\* the entries of the table that self._table.search returns for secagg_id
Entries(tbl, secagg_id) == SelectSeq(tbl, LAMBDA e : e.secagg_id = secagg_id)

NoElement == [none |-> "None"]

\* BaseSecaggManager._get_generic
get_generic(tbl, secagg_id) ==
    LET entries == Entries(tbl, secagg_id)
    IN  IF Len(entries) > 1
        THEN [raised |-> "FedbiomedSecaggError", element |-> NoElement]
        ELSE IF Len(entries) = 1
        THEN [raised |-> None, element |-> entries[1]]
        ELSE [raised |-> None, element |-> NoElement]

\* variant: the entry is inserted without looking for secagg_id first
add_generic_NoLookup(tbl, secagg_id, job_id) ==
    [raised |-> None, table |-> Append(tbl, [secagg_id |-> secagg_id, job_id |-> job_id]),
     returned |-> None]

\* BaseSecaggManager._add_generic; the entry holds job_id for the servkey
\* manager, None for the biprime manager
add_generic(tbl, secagg_id, job_id) ==
    LET got == get_generic(tbl, secagg_id)
    IN  IF got.raised # None
        THEN [raised |-> got.raised, table |-> tbl, returned |-> None]
        ELSE IF got.element # NoElement
        THEN [raised |-> "FedbiomedSecaggError", table |-> tbl, returned |-> None]
        ELSE [raised |-> None,
              table |-> Append(tbl, [secagg_id |-> secagg_id, job_id |-> job_id]),
              returned |-> None]

\* BaseSecaggManager._remove_generic
remove_generic(tbl, secagg_id) ==
    LET got == get_generic(tbl, secagg_id)
    IN  IF got.raised # None
        THEN [raised |-> got.raised, table |-> tbl, returned |-> None]
        ELSE IF got.element = NoElement
        THEN [raised |-> None, table |-> tbl, returned |-> "False"]
        ELSE [raised |-> None,
              table |-> SelectSeq(tbl, LAMBDA e : e.secagg_id # secagg_id),
              returned |-> "True"]

\* the test of SecaggServkeyManager.get and remove: the entry found belongs
\* to another job
OtherJob(got, job_id) == got.element # NoElement /\ got.element.job_id # job_id

\* SecaggServkeyManager.get / SecaggBiprimeManager.get
ManagerGet(kind, tbl, secagg_id, job_id) ==
    LET got == get_generic(tbl, secagg_id)
    IN  IF got.raised # None
        THEN [raised |-> got.raised, table |-> tbl, returned |-> None]
        ELSE IF kind = "servkey" /\ OtherJob(got, job_id)
        THEN [raised |-> "FedbiomedSecaggError", table |-> tbl, returned |-> None]
        ELSE [raised |-> None, table |-> tbl,
              returned |-> IF got.element = NoElement THEN None ELSE "element"]

\* SecaggServkeyManager.add / SecaggBiprimeManager.add
ManagerAdd(kind, tbl, secagg_id, job_id) ==
    add_generic(tbl, secagg_id, IF kind = "servkey" THEN job_id ELSE None)

\* variant: the servkey manager removes the entry whatever its job
ManagerRemove_AnyJob(kind, tbl, secagg_id, job_id) == remove_generic(tbl, secagg_id)

\* SecaggServkeyManager.remove / SecaggBiprimeManager.remove
ManagerRemove(kind, tbl, secagg_id, job_id) ==
    LET got == get_generic(tbl, secagg_id)
    IN  IF kind = "servkey" /\ got.raised # None
        THEN [raised |-> got.raised, table |-> tbl, returned |-> None]
        ELSE IF kind = "servkey" /\ OtherJob(got, job_id)
        THEN [raised |-> "FedbiomedSecaggError", table |-> tbl, returned |-> None]
        ELSE remove_generic(tbl, secagg_id)

\* a call of the manager
ManagerCall(op, secagg_id, job_id) ==
    /\ mgr_ncalls < MaxManagerCalls
    /\ mgr_ncalls' = mgr_ncalls + 1
    /\ LET r == CASE op = "add" -> ManagerAdd(manager, table, secagg_id, job_id)
                  [] op = "get" -> ManagerGet(manager, table, secagg_id, job_id)
                  [] op = "remove" -> ManagerRemove(manager, table, secagg_id, job_id)
       IN  /\ table' = r.table
           /\ mgr_last' = [op |-> op, secagg_id |-> secagg_id, job_id |-> job_id,
                           before |-> table, raised |-> r.raised, returned |-> r.returned]
    /\ UNCHANGED manager
    /\ UNCHANGED nonManagerVars

Add(secagg_id, job_id) == ManagerCall("add", secagg_id, job_id)

Get(secagg_id, job_id) == ManagerCall("get", secagg_id, job_id)

Remove(secagg_id, job_id) == ManagerCall("remove", secagg_id, job_id)

NoManagerCall ==
    [op |-> "none", secagg_id |-> None, job_id |-> None, before |-> <<>>, raised |-> None,
     returned |-> None]

ManagerInit ==
    /\ manager \in {"servkey", "biprime"}
    /\ table = <<>>
    /\ mgr_last = NoManagerCall
    /\ mgr_ncalls = 0

ManagerIdle ==
    /\ manager = "off"
    /\ table = <<>>
    /\ mgr_last = NoManagerCall
    /\ mgr_ncalls = 0

(***************************************************************************)
(* FederatedWorkflow: the setters of tags, nodes and training data         *)
(***************************************************************************)
WorkflowNodes == {"alice", "node1"}

WorkflowTags == {"some-tags", "other-tags"}

\* a value of the tags argument or attribute: None or a list of tags
TagsValues == {NoneDict} \cup {[tags |-> t] : t \in SUBSET WorkflowTags}

\* a value of the nodes argument or attribute: None or a list of node ids
NodesValues == {NoneDict} \cup {[nodes |-> n] : n \in SUBSET WorkflowNodes}

\* the dicts a FederatedDataSet is made of: for some nodes, the tags of the
\* dataset of the node
DataDicts ==
    UNION { { {[node_id |-> n, tags |-> f[n]] : n \in S} : f \in [S -> SUBSET WorkflowTags] } :
            S \in SUBSET WorkflowNodes }

\* a value of the training_data argument: None, a FederatedDataSet, a dict,
\* or a value of another type
TrainingDataValues ==
    {NoneDict, [type |-> "str"]}
        \cup {[type |-> "FederatedDataSet", data |-> d] : d \in DataDicts}
        \cup {[type |-> "dict", data |-> d] : d \in DataDicts}

\* FederatedDataSet.node_ids
node_ids(data) == {e.node_id : e \in data}

\* FederatedWorkflow._fds_tags_consistent
fds_tags_consistent(training_data, tags) ==
    IF training_data # NoneDict /\ tags # NoneDict
    THEN /\ training_data.data # {}
         /\ \A x \in training_data.data : tags.tags \subseteq x.tags
    ELSE TRUE

\* exp_exceptions: an exception of the setter ends the process, or, in an
\* interactive kernel, becomes FedbiomedSilentTerminationError
exp_exceptions(raised, ipython) ==
    IF raised = None THEN None
    ELSE IF ipython THEN "FedbiomedSilentTerminationError" ELSE "SystemExit"

\* what a setter leaves of the attributes self
Outcome(self, exception, value) ==
    [tags |-> self.tags, nodes_filter |-> self.nodes_filter, fds |-> self.fds,
     raised |-> exception, returned |-> value]

\* the end of set_training_data, once self._fds is set to new_fds
CheckConsistency(self, new_fds, from_tags) ==
    [tags |-> IF ~fds_tags_consistent(new_fds, self.tags)
              THEN (IF from_tags THEN self.tags ELSE NoneDict)
              ELSE self.tags,
     nodes_filter |-> self.nodes_filter, fds |-> new_fds, raised |-> None,
     returned |-> new_fds]

\* variant: a training_data argument is accepted when from_tags is True
set_training_data_NoFromTagsTest(self, training_data, from_tags, search) ==
    IF training_data = NoneDict
    THEN IF from_tags
         THEN IF self.tags = NoneDict
              THEN Outcome(self, "FedbiomedValueError", NoneDict)
              ELSE CheckConsistency(self, [type |-> "FederatedDataSet", data |-> search], from_tags)
         ELSE [Outcome(self, None, NoneDict) EXCEPT !.fds = NoneDict]
    ELSE IF training_data.type \in {"FederatedDataSet", "dict"}
    THEN CheckConsistency(self, [type |-> "FederatedDataSet", data |-> training_data.data], from_tags)
    ELSE Outcome(self, "FedbiomedTypeError", NoneDict)

\* FederatedWorkflow.set_training_data; search is the dict that
\* self._reqs.search returns
set_training_data(self, training_data, from_tags, search) ==
    IF from_tags /\ training_data # NoneDict
    THEN Outcome(self, "FedbiomedValueError", NoneDict)
    ELSE IF training_data = NoneDict
    THEN IF from_tags
         THEN IF self.tags = NoneDict
              THEN Outcome(self, "FedbiomedValueError", NoneDict)
              ELSE CheckConsistency(self, [type |-> "FederatedDataSet", data |-> search], from_tags)
         ELSE [Outcome(self, None, NoneDict) EXCEPT !.fds = NoneDict]
    ELSE IF training_data.type \in {"FederatedDataSet", "dict"}
    THEN CheckConsistency(self, [type |-> "FederatedDataSet", data |-> training_data.data], from_tags)
    ELSE Outcome(self, "FedbiomedTypeError", NoneDict)

\* FederatedWorkflow.set_tags
set_tags(self, tags, search) ==
    IF tags = NoneDict
    THEN [Outcome(self, None, NoneDict) EXCEPT !.tags = NoneDict]
    ELSE IF self.tags # NoneDict /\ tags.tags = self.tags.tags
    THEN Outcome(self, None, self.tags)
    ELSE LET set == [self EXCEPT !.tags = tags]
         IN  IF ~fds_tags_consistent(set.fds, set.tags)
             THEN LET reset == set_training_data(set, NoneDict, TRUE, search)
                  IN  [reset EXCEPT !.returned = reset.tags]
             ELSE Outcome(set, None, tags)

\* FederatedWorkflow.set_nodes
set_nodes(self, node_list) ==
    [Outcome(self, None, node_list) EXCEPT !.nodes_filter = node_list]

\* FederatedWorkflow.nodes
nodes_getter == nodes_filter

Self == [tags |-> wf_tags, nodes_filter |-> nodes_filter, fds |-> fds]

\* a setter was called: its outcome becomes the attributes of the workflow
SetterCall(op, argument, from_tags, out) ==
    /\ wf_ncalls < MaxWorkflowCalls
    /\ wf_ncalls' = wf_ncalls + 1
    /\ wf_tags' = out.tags
    /\ nodes_filter' = out.nodes_filter
    /\ fds' = out.fds
    /\ \E ipython \in IF out.raised = None THEN {FALSE} ELSE BOOLEAN :
          wf_last' = [op |-> op, argument |-> argument, from_tags |-> from_tags,
                      before |-> Self, raised |-> exp_exceptions(out.raised, ipython),
                      returned |-> out.returned]
    /\ UNCHANGED nonWorkflowVars

SetTags(tags, search) ==
    SetterCall("set_tags", tags, FALSE, set_tags(Self, tags, search))

SetNodes(node_list) ==
    SetterCall("set_nodes", node_list, FALSE, set_nodes(Self, node_list))

SetTrainingData(training_data, from_tags, search) ==
    SetterCall("set_training_data", training_data, from_tags,
               set_training_data(Self, training_data, from_tags, search))

\* the replies self._reqs.search may give to a call of set_training_data:
\* any dict when the call searches, none otherwise
SearchReplies(training_data, from_tags) ==
    IF training_data = NoneDict /\ from_tags /\ wf_tags # NoneDict THEN DataDicts ELSE {{}}

NoSetterCall ==
    [op |-> "none", argument |-> NoneDict, from_tags |-> FALSE,
     before |-> [tags |-> NoneDict, nodes_filter |-> NoneDict, fds |-> NoneDict],
     raised |-> None, returned |-> NoneDict]

\* FederatedWorkflow.__init__ without arguments
WorkflowInit ==
    /\ wf_tags = NoneDict
    /\ nodes_filter = NoneDict
    /\ fds = NoneDict
    /\ wf_last = NoSetterCall
    /\ wf_ncalls = 0

WorkflowIdle ==
    /\ wf_tags = NoneDict
    /\ nodes_filter = NoneDict
    /\ fds = NoneDict
    /\ wf_last = NoSetterCall
    /\ wf_ncalls = 0

(***************************************************************************)
(* Node: Node.on_message (requests received from the researcher) and       *)
(* Node.task_manager (tasks taken from the task queue)                     *)
(***************************************************************************)
Commands ==
    {"train", "secagg", "secagg-delete", "ping", "search", "list", "approval",
     "training-plan-status"}

\* the researcher_id entry of a request: None when the key is missing
RequestRids == {RESEARCHER_ID, None}

\* what NodeMessages.format_incoming_message does with the request
FormatOutcomes == {"ok", "FedbiomedMessageError", "TypeError"}

\* the requests on_message receives: command is None when the key is missing,
\* "unknown" when it is none of the commands of the node
Requests ==
    {[command |-> None, researcher_id |-> r, fmt |-> "ok"] : r \in RequestRids}
    \cup {[command |-> "unknown", researcher_id |-> r, fmt |-> f] :
             r \in RequestRids, f \in {"ok", "FedbiomedMessageError"}}
    \cup {[command |-> c, researcher_id |-> r, fmt |-> f] :
             c \in Commands, r \in RequestRids, f \in FormatOutcomes}

\* what the collaborators of on_message answer: databases found or not for
\* search, the reply message well formed or not for secagg-delete
OnMessageEnvs(msg) ==
    IF msg.fmt = "ok" /\ msg.command = "search" THEN {"found", "none"}
    ELSE IF msg.fmt = "ok" /\ msg.command = "secagg-delete" THEN {"ok", "reply_error"}
    ELSE {"ok"}

TaskManagerOutcomes ==
    {"ok", "no_data", "silent", "exception", "unparsable", "setup_error", "reply_error"}

\* what the collaborators of task_manager answer for a queued item
TaskManagerEnvs(item) ==
    IF item.command = "train"
    THEN {"ok", "no_data", "silent", "exception", "unparsable"}
    ELSE {"ok", "setup_error", "reply_error", "unparsable"}

\* the class of the message NodeMessages.format_outgoing_message builds
OutgoingType(command) ==
    CASE command = "error" -> "ErrorMessage"
      [] command = "pong" -> "PingReply"
      [] command = "search" -> "SearchReply"
      [] command = "list" -> "ListReply"
      [] command = "approval" -> "ApprovalReply"
      [] command = "training-plan-status" -> "TrainingPlanStatusReply"
      [] command = "secagg" -> "SecaggReply"
      [] command = "secagg-delete" -> "SecaggDeleteReply"
      [] command = "train" -> "TrainReply"

format_outgoing_message(command, researcher_id) ==
    [type |-> OutgoingType(command), command |-> command, researcher_id |-> researcher_id]

\* ResearcherClient.send: a FeedbackMessage is put on the send queue, any
\* other message raises Exception('Undefined message type')
ResearcherClient_send(message) ==
    IF message.type = "FeedbackMessage" THEN "queued" ELSE "Exception"

\* the messages handed to ResearcherClient.send one after the other, up to
\* the first one it raises on
Handed(messages) ==
    LET raising == {i \in DOMAIN messages :
                        ResearcherClient_send(messages[i]) = "Exception"}
        first == CHOOSE i \in raising : \A j \in raising : i <= j
    IN  IF raising = {}
        THEN [sends |-> messages, queued |-> messages, raised |-> None]
        ELSE [sends |-> SubSeq(messages, 1, first),
              queued |-> SubSeq(messages, 1, first - 1),
              raised |-> "Exception"]

\* Node.send_error: the ErrorMessage handed to the gRPC client
send_error(researcher_id) ==
    [type |-> "ErrorMessage", command |-> "error", researcher_id |-> researcher_id]

\* Node.reply: the reply is sent, or an error message if it is not well formed
reply(command, researcher_id, ok) ==
    IF ok
    THEN Handed(<<format_outgoing_message(command, researcher_id)>>)
    ELSE Handed(<<send_error("<unknown>")>>)

\* msg.get('researcher_id', 'unknown_researcher_id')
Resid(msg) ==
    IF msg.researcher_id = None THEN "unknown_researcher_id" ELSE msg.researcher_id

\* the except clauses of on_message: send_error is called in the handler, so
\* what it raises leaves on_message
Caught(msg) == Handed(<<send_error(Resid(msg))>>)

NoTask(r) == [tasks |-> <<>>, sends |-> r.sends, queued |-> r.queued, raised |-> r.raised]

\* Node.on_message: the tasks added to the queue, the messages handed to the
\* gRPC client, those it queued and the exception raised (None if the call
\* returns)
on_message(msg, env) ==
    IF msg.command = None THEN NoTask(Caught(msg))
    ELSE IF msg.fmt # "ok" THEN NoTask(Caught(msg))
    ELSE IF msg.command \in {"train", "secagg"}
    THEN [tasks |-> <<msg>>, sends |-> <<>>, queued |-> <<>>, raised |-> None]
    ELSE IF msg.command = "secagg-delete"
    THEN NoTask(reply("secagg-delete", msg.researcher_id, env # "reply_error"))
    ELSE IF msg.command = "search" /\ env = "none" THEN NoTask(Handed(<<>>))
    ELSE IF msg.command \in {"ping", "search", "list"}
    THEN IF msg.researcher_id = None
         THEN NoTask(Caught(msg))
         ELSE NoTask(Handed(<<format_outgoing_message(
                                 IF msg.command = "ping" THEN "pong" ELSE msg.command,
                                 msg.researcher_id)>>))
    ELSE IF msg.command \in {"approval", "training-plan-status"}
    THEN NoTask(Handed(<<format_outgoing_message(msg.command, msg.researcher_id)>>))
    ELSE NoTask(Caught(msg))

\* the error message of the except clauses of task_manager
NotSetError == format_outgoing_message("error", "NOT_SET")

\* parser_task_train without data: the error message is handed to the client
\* inside the try block of task_manager, whose except clause then sends the
\* 'NOT_SET' error message if the first send raised
NoData(item) ==
    LET first == Handed(<<format_outgoing_message("error", item.researcher_id)>>)
        second == Handed(<<NotSetError>>)
    IN  IF first.raised = None THEN first
        ELSE [sends |-> first.sends \o second.sends,
              queued |-> first.queued \o second.queued,
              raised |-> second.raised]

\* body of the loop of Node.task_manager for one item: the messages handed to
\* the gRPC client, those it queued and the exception that leaves the loop.
\* For env "ok" the Round hands the train reply to reply_callback and nothing
\* leaves run_model_training; "exception" is any exception that leaves it.
task_manager(item, env) ==
    IF env = "unparsable"
    THEN Handed(<<NotSetError>>)
    ELSE IF item.command = "train"
    THEN IF env = "no_data" THEN NoData(item)
         ELSE IF env = "silent" THEN Handed(<<>>)
         ELSE IF env = "exception" THEN Handed(<<NotSetError>>)
         ELSE [sends |-> <<format_outgoing_message("train", item.researcher_id)>>,
               queued |-> <<>>, raised |-> None]
    ELSE IF item.command = "secagg"
    THEN reply("secagg", item.researcher_id, env # "reply_error")
    ELSE Handed(<<send_error("<unknown>")>>)

\* Node.on_message is called with a request of the researcher
OnMessage(msg, env) ==
    /\ nrequests < MaxRequests
    /\ nrequests' = nrequests + 1
    /\ LET r == on_message(msg, env)
       IN  /\ tasks_queue' = tasks_queue \o r.tasks
           /\ calls' = Append(calls, [by |-> "on_message", request |-> msg,
                                      ntasks |-> Len(r.tasks), sends |-> r.sends,
                                      queued |-> r.queued, raised |-> r.raised])
    /\ UNCHANGED <<tasks_done, tm_raised>>
    /\ UNCHANGED nonNodeVars

\* one iteration of the loop of Node.task_manager; task_done() is reached
\* only if nothing was raised, and an exception ends the loop
TaskManager(env) ==
    /\ tm_raised = None
    /\ tasks_queue # <<>>
    /\ env \in TaskManagerEnvs(Head(tasks_queue))
    /\ tasks_queue' = Tail(tasks_queue)
    /\ LET r == task_manager(Head(tasks_queue), env)
       IN  /\ calls' = Append(calls, [by |-> "task_manager",
                                      request |-> Head(tasks_queue), ntasks |-> 0,
                                      sends |-> r.sends, queued |-> r.queued,
                                      raised |-> r.raised])
           /\ tm_raised' = r.raised
           /\ tasks_done' = IF r.raised = None THEN tasks_done + 1 ELSE tasks_done
    /\ UNCHANGED nrequests
    /\ UNCHANGED nonNodeVars

NodeInit ==
    /\ tasks_queue = <<>>
    /\ calls = <<>>
    /\ nrequests = 0
    /\ tasks_done = 0
    /\ tm_raised = None

NodeIdle ==
    /\ tasks_queue = <<>>
    /\ calls = <<>>
    /\ nrequests = 0
    /\ tasks_done = -1
    /\ tm_raised = None

(***************************************************************************)
(* The whole wait loop of Job._get_training_testing_results as a function  *)
(* of the messages get_responses returns: msgs in arrival order, ends[i]   *)
(* telling whether message i is the last one of its batch (models_done).   *)
(***************************************************************************)
RECURSIVE WaitLoop(_, _, _, _)
WaitLoop(st, msgs, ends, testing) ==
    IF testing /\ ~waiting_for_nodes(st.replies, st.nodes)
    THEN [nodes |-> st.nodes, replies |-> st.replies, terminated |-> TRUE]
    ELSE IF msgs = <<>>
    THEN [nodes |-> st.nodes, replies |-> st.replies, terminated |-> FALSE]
    ELSE WaitLoop(HandleMessage(st, Head(msgs)), Tail(msgs), Tail(ends), Head(ends))

\* outcome of a round: termination, set of recorded replies, remaining node list
RoundOutcome(nodes_, msgs, ends) ==
    LET r == WaitLoop([nodes |-> nodes_, replies |-> <<>>], msgs, ends, TRUE)
    IN  [terminated |-> r.terminated, replies |-> Range(r.replies), nodes |-> r.nodes]

\* the messages a participating node sends for this job
JobMessages(n) ==
    {TrainReply(n, RESEARCHER_ID, JobId, TRUE, EmptyDict),
     TrainReply(n, RESEARCHER_ID, JobId, FALSE, EmptyDict),
     ErrorMessage(n, RESEARCHER_ID)}

\* the train replies and error messages a participating node can send
CommMessages(n) ==
    JobMessages(n) \cup {TrainReply(n, RESEARCHER_ID, "other_job", TRUE, EmptyDict)}

SeqsUpTo(S, k) == UNION {[1..i -> S] : i \in 0..k}

Perms(k) == {f \in [1..k -> 1..k] : \A i, j \in 1..k : f[i] = f[j] => i = j}

\* the ways get_responses can cut k messages into batches
Batchings(k) == {e \in [1..k -> BOOLEAN] : k > 0 => e[k]}

CommIdle == comm = [stage |-> "idle"]

CommInit ==
    \E nl \in NodeLists \ {<<>>} :
    \E ms \in SeqsUpTo(UNION {CommMessages(n) : n \in Range(nl)}, MaxCommMsgs) :
        comm = [stage |-> "input", nodes |-> nl, msgs |-> ms]

\* a first round receives the messages in the order msgs
RunFirst ==
    /\ comm.stage = "input"
    /\ \E e \in Batchings(Len(comm.msgs)) :
          comm' = [stage |-> "first", nodes |-> comm.nodes, msgs |-> comm.msgs,
                   first |-> RoundOutcome(comm.nodes, comm.msgs, e)]
    /\ UNCHANGED nonCommVars

\* a second round, from the same initial state, receives them in another order
RunSecond ==
    /\ comm.stage = "first"
    /\ \E f \in Perms(Len(comm.msgs)) : \E e \in Batchings(Len(comm.msgs)) :
          LET other == [i \in 1..Len(comm.msgs) |-> comm.msgs[f[i]]]
          IN  comm' = [stage |-> "second", nodes |-> comm.nodes, msgs |-> comm.msgs,
                       first |-> comm.first, order |-> other,
                       second |-> RoundOutcome(comm.nodes, other, e)]
    /\ UNCHANGED nonCommVars

(***************************************************************************)
(* Spec: one round with arbitrary incoming messages                        *)
(***************************************************************************)
JobInit ==
    /\ nodes \in NodeLists
    /\ training_replies = <<>>
    /\ pc = "init"
    /\ participating = {}
    /\ outcome = [n \in Nodes |-> <<>>]
    /\ nmsgs = 0
    /\ optim_aux_var = EmptyDict
    /\ do_training = TRUE
    /\ requests = EmptyDict
    /\ aux_var = EmptyDict
    /\ saved_state = NoneDict

Init == JobInit /\ CommIdle /\ TaskIdle /\ ReplyIdle /\ ServerIdle /\ NodeIdle /\ GrpcIdle /\ SecaggIdle /\ ManagerIdle /\ WorkflowIdle /\ BreakpointIdle

Next ==
    \/ StartRound
    \/ WhileTest
    \/ \E m \in Messages : ForBody(m)
    \/ EndFor
    \/ ExtractAuxVar
    \/ SaveState

Spec == Init /\ [][Next]_vars

(***************************************************************************)
(* OnceSpec: every participating node delivers exactly one message for     *)
(* this job (a train reply, successful or not, or an error message)        *)
(***************************************************************************)
ForBodyOnce(m) ==
    /\ m.node_id \in participating
    /\ outcome[m.node_id] = <<>>
    /\ ForBody(m)

DeliverOnce(n) == \E m \in JobMessages(n) : ForBodyOnce(m)

NextOnce ==
    \/ StartRound
    \/ WhileTest
    \/ \E n \in Nodes : DeliverOnce(n)
    \/ EndFor
    \/ ExtractAuxVar

\* the control thread runs, and the message of each node is eventually in a
\* batch returned by get_responses
OnceSpec ==
    /\ Init /\ [][NextOnce]_vars
    /\ WF_vars(StartRound) /\ WF_vars(WhileTest) /\ WF_vars(EndFor)
    /\ \A n \in Nodes : SF_vars(DeliverOnce(n))

(***************************************************************************)
(* CommSpec: the wait loop run twice on the same multiset of messages      *)
(***************************************************************************)
IdleJob ==
    /\ nodes = <<>>
    /\ training_replies = <<>>
    /\ pc = "idle"
    /\ participating = {}
    /\ outcome = [n \in Nodes |-> <<>>]
    /\ nmsgs = 0
    /\ optim_aux_var = EmptyDict
    /\ do_training = TRUE
    /\ requests = EmptyDict
    /\ aux_var = EmptyDict
    /\ saved_state = NoneDict

CommNext == RunFirst \/ RunSecond

CommSpecInit == IdleJob /\ CommInit /\ TaskIdle /\ ReplyIdle /\ ServerIdle /\ NodeIdle /\ GrpcIdle /\ SecaggIdle /\ ManagerIdle /\ WorkflowIdle /\ BreakpointIdle

CommSpec == CommSpecInit /\ [][CommNext]_vars

(***************************************************************************)
(* AuxSpec: start_nodes_training_round for every optim_aux_var             *)
(***************************************************************************)
AuxKeys == Nodes \cup {"delta"}

\* what a module holds: shared entries (key "delta") and entries keyed by node id
ModInfos == UNION {[K -> {"v0", "v1"}] : K \in SUBSET AuxKeys}

OptimAuxVars == UNION {[M -> ModInfos] : M \in SUBSET Modules}

AuxInit ==
    /\ nodes \in NodeLists
    /\ training_replies = <<>>
    /\ pc = "init"
    /\ participating = {}
    /\ outcome = [n \in Nodes |-> <<>>]
    /\ nmsgs = 0
    /\ optim_aux_var \in OptimAuxVars
    /\ do_training \in BOOLEAN
    /\ requests = EmptyDict
    /\ aux_var = EmptyDict
    /\ saved_state = NoneDict

AuxNext == StartRound

AuxSpecInit == AuxInit /\ CommIdle /\ TaskIdle /\ ReplyIdle /\ ServerIdle /\ NodeIdle /\ GrpcIdle /\ SecaggIdle /\ ManagerIdle /\ WorkflowIdle /\ BreakpointIdle

AuxSpec == AuxSpecInit /\ [][AuxNext]_vars

(***************************************************************************)
(* TaskSpec: a node polls for tasks; ReplySpec: a node streams replies     *)
(***************************************************************************)
TaskNext ==
    \/ LoopTest
    \/ Poll
    \/ \E task \in ByteSeqs(MaxTaskLen) : GetTaskUnary(task)
    \/ RecvAnswer
    \/ StreamEnd

TaskSpecInit == IdleJob /\ CommIdle /\ TaskInit /\ ReplyIdle /\ ServerIdle /\ NodeIdle /\ GrpcIdle /\ SecaggIdle /\ ManagerIdle /\ WorkflowIdle /\ BreakpointIdle

TaskSpec == TaskSpecInit /\ [][TaskNext]_vars

\* the tasks streamed while the polls run into transport errors
RetryTasks == {[i \in 1..n |-> i % 2] : n \in 1..MaxFrameBytes}

RetryNext ==
    \/ LoopTest
    \/ Poll
    \/ \E task \in RetryTasks : GetTaskUnary(task)
    \/ RecvAnswer
    \/ StreamEnd
    \/ \E code \in StatusCodes : RpcError(code)
    \/ BackoffDone
    \/ LoopExit
    \/ Stop

RetrySpecInit == IdleJob /\ CommIdle /\ TaskInit /\ ReplyIdle /\ ServerIdle /\ NodeIdle /\ GrpcIdle /\ SecaggIdle /\ ManagerIdle /\ WorkflowIdle /\ BreakpointIdle

\* the event loop of the node runs the polling coroutine
RetrySpec ==
    /\ RetrySpecInit /\ [][RetryNext]_vars
    /\ WF_vars(LoopTest) /\ WF_vars(Poll) /\ WF_vars(BackoffDone)

(***************************************************************************)
(* StopSpec: a started client, its two loops, and one call of stop()       *)
(***************************************************************************)
\* the task the server streams to a poll, if it has one
StopTask == <<1>>

ListenerStep == \E queued \in BOOLEAN : ListenerTest(queued)

StopNext ==
    \/ LoopTest
    \/ Poll
    \/ GetTaskUnary(StopTask)
    \/ RecvAnswer
    \/ StreamEnd
    \/ \E code \in StatusCodes : RpcError(code)
    \/ BackoffDone
    \/ LoopExit
    \/ Stop
    \/ ListenerStep
    \/ ListenerLoop
    \/ Teardown

StopSpecInit == IdleJob /\ CommIdle /\ ClientInit /\ ReplyIdle /\ ServerIdle /\ NodeIdle /\ GrpcIdle /\ SecaggIdle /\ ManagerIdle /\ WorkflowIdle /\ BreakpointIdle

\* the event loop of the node runs the two coroutines; whether the server
\* ever has a task for the node is left open
StopSpec ==
    /\ StopSpecInit /\ [][StopNext]_vars
    /\ WF_vars(LoopTest) /\ WF_vars(Poll) /\ WF_vars(RecvAnswer) /\ WF_vars(StreamEnd)
    /\ WF_vars(BackoffDone) /\ WF_vars(LoopExit)
    /\ WF_vars(ListenerStep) /\ WF_vars(ListenerLoop) /\ WF_vars(Teardown)

(***************************************************************************)
(* SecaggSpec: one call of SecaggContext.setup                             *)
(***************************************************************************)
SecaggNext ==
    \/ SetupSend
    \/ \E resp \in SecaggAnswers : SecaggAnswer(resp)
    \/ SetupRead
    \/ SetupAgain

SecaggSpecInit == IdleJob /\ CommIdle /\ TaskIdle /\ ReplyIdle /\ ServerIdle /\ NodeIdle /\ GrpcIdle /\ SecaggInit /\ ManagerIdle /\ WorkflowIdle /\ BreakpointIdle

SecaggSpec == SecaggSpecInit /\ [][SecaggNext]_vars

(***************************************************************************)
(* ManagerSpec: calls of add, get and remove on an empty table             *)
(***************************************************************************)
\* the biprime manager is called without job_id
CallJobIds == IF manager = "servkey" THEN ManagerJobIds ELSE {None}

ManagerNext ==
    \/ \E secagg_id \in SecaggIds, job_id \in CallJobIds : Add(secagg_id, job_id)
    \/ \E secagg_id \in SecaggIds, job_id \in CallJobIds : Get(secagg_id, job_id)
    \/ \E secagg_id \in SecaggIds, job_id \in CallJobIds : Remove(secagg_id, job_id)

ManagerSpecInit == IdleJob /\ CommIdle /\ TaskIdle /\ ReplyIdle /\ ServerIdle /\ NodeIdle /\ GrpcIdle /\ SecaggIdle /\ ManagerInit /\ WorkflowIdle /\ BreakpointIdle

ManagerSpec == ManagerSpecInit /\ [][ManagerNext]_vars

(***************************************************************************)
(* WorkflowSpec: setters called on a FederatedWorkflow built without       *)
(* arguments                                                               *)
(***************************************************************************)
WorkflowNext ==
    \/ \E tags \in TagsValues, search \in DataDicts : SetTags(tags, search)
    \/ \E node_list \in NodesValues : SetNodes(node_list)
    \/ \E training_data \in TrainingDataValues, from_tags \in BOOLEAN :
          \E search \in SearchReplies(training_data, from_tags) :
             SetTrainingData(training_data, from_tags, search)

WorkflowSpecInit == IdleJob /\ CommIdle /\ TaskIdle /\ ReplyIdle /\ ServerIdle /\ NodeIdle /\ GrpcIdle /\ SecaggIdle /\ ManagerIdle /\ WorkflowInit /\ BreakpointIdle

WorkflowSpec == WorkflowSpecInit /\ [][WorkflowNext]_vars

(***************************************************************************)
(* StartSpec: the researcher starts the server and waits for a first node  *)
(***************************************************************************)
StartNext ==
    \/ GrpcStart
    \/ AsyncStarted
    \/ \E failure \in StartFailures : AsyncStartFails(failure)
    \/ StartTest
    \/ StartBreak
    \/ StartWait
    \/ \E n \in ServerNodes : GrpcPoll(n)
    \/ \E h \in DOMAIN handlers : Retrieve(h)
    \/ \E h \in DOMAIN handlers : SetActive(h)

StartSpecInit == IdleJob /\ CommIdle /\ TaskIdle /\ ReplyIdle /\ ServerInit /\ NodeIdle /\ GrpcInit /\ SecaggIdle /\ ManagerIdle /\ WorkflowIdle /\ BreakpointIdle

\* the thread that called start() runs: time.sleep returns
StartSpec ==
    /\ StartSpecInit /\ [][StartNext]_vars
    /\ WF_vars(StartTest) /\ WF_vars(StartBreak) /\ WF_vars(StartWait)

(***************************************************************************)
(* BreakpointSpec: the training replies of a job are saved, then loaded    *)
(***************************************************************************)
BreakpointNext ==
    \/ SaveReplies
    \/ LoadReplies

BreakpointSpecInit == IdleJob /\ CommIdle /\ TaskIdle /\ ReplyIdle /\ ServerIdle /\ NodeIdle /\ GrpcIdle /\ SecaggIdle /\ ManagerIdle /\ WorkflowIdle /\ BreakpointInit

BreakpointSpec == BreakpointSpecInit /\ [][BreakpointNext]_vars

NodeNext ==
    \/ \E msg \in Requests : \E env \in OnMessageEnvs(msg) : OnMessage(msg, env)
    \/ \E env \in TaskManagerOutcomes : TaskManager(env)

NodeSpecInit == IdleJob /\ CommIdle /\ TaskIdle /\ ReplyIdle /\ ServerIdle /\ NodeInit /\ GrpcIdle /\ SecaggIdle /\ ManagerIdle /\ WorkflowIdle /\ BreakpointIdle

NodeSpec == NodeSpecInit /\ [][NodeNext]_vars

ReplyNext ==
    \/ ReplyTaskCall
    \/ \E answer \in Frames, loads_ok \in BOOLEAN : ReplyTaskAnswer(answer, loads_ok)
    \/ ReplyTaskEnd

ReplySpecInit == IdleJob /\ CommIdle /\ TaskIdle /\ ReplyInit /\ ServerIdle /\ NodeIdle /\ GrpcIdle /\ SecaggIdle /\ ManagerIdle /\ WorkflowIdle /\ BreakpointIdle

ReplySpec == ReplySpecInit /\ [][ReplyNext]_vars

(***************************************************************************)
(* ServerSpec: nodes poll the researcher server while the researcher sends *)
(* tasks to single nodes and the status checker runs; BroadcastSpec: the   *)
(* nodes register and the researcher broadcasts tasks; FeedbackSpec: nodes *)
(* poll and send feedback while the researcher sends tasks                 *)
(***************************************************************************)
PollNext ==
    \/ \E n \in ServerNodes : GetTaskUnaryCall(n)
    \/ \E h \in DOMAIN handlers : Retrieve(h)
    \/ \E h \in DOMAIN handlers : SetActive(h)
    \/ \E h \in DOMAIN handlers : GetTask(h)
    \/ \E i \in DOMAIN agents : StatusCheck(i)

ServerNext ==
    \/ PollNext
    \/ \E n \in ServerNodes : Send(n)

BroadcastNext ==
    \/ \E n \in ServerNodes : GetTaskUnaryCall(n)
    \/ \E h \in DOMAIN handlers : Retrieve(h)
    \/ \E h \in DOMAIN handlers : SetActive(h)
    \/ \E i \in DOMAIN agents : StatusCheck(i)
    \/ Broadcast

FeedbackNext ==
    \/ \E n \in ServerNodes : GetTaskUnaryCall(n)
    \/ \E h \in DOMAIN handlers : Retrieve(h)
    \/ \E h \in DOMAIN handlers : SetActive(h)
    \/ \E h \in DOMAIN handlers : GetTask(h)
    \/ \E n \in ServerNodes : Send(n)
    \/ \E request \in FeedbackRequests : Feedback(request)

ServerSpecInit == IdleJob /\ CommIdle /\ TaskIdle /\ ReplyIdle /\ ServerInit /\ NodeIdle /\ GrpcIdle /\ SecaggIdle /\ ManagerIdle /\ WorkflowIdle /\ BreakpointIdle

ServerSpec == ServerSpecInit /\ [][ServerNext]_vars

BroadcastSpecInit == IdleJob /\ CommIdle /\ TaskIdle /\ ReplyIdle /\ ServerInit /\ NodeIdle /\ GrpcIdle /\ SecaggIdle /\ ManagerIdle /\ WorkflowIdle /\ BreakpointIdle

BroadcastSpec == BroadcastSpecInit /\ [][BroadcastNext]_vars

DeliveryNext ==
    \/ \E n \in ServerNodes : GetTaskUnaryCall(n)
    \/ \E h \in DOMAIN handlers : Retrieve(h)
    \/ \E h \in DOMAIN handlers : SetActive(h)
    \/ \E h \in DOMAIN handlers : GetTask(h)
    \/ \E h \in DOMAIN handlers : Yield(h)
    \/ \E h \in DOMAIN handlers : Abort(h)
    \/ \E n \in ServerNodes : Send(n)

DeliverySpecInit == IdleJob /\ CommIdle /\ TaskIdle /\ ReplyIdle /\ ServerInit /\ NodeIdle /\ GrpcIdle /\ SecaggIdle /\ ManagerIdle /\ WorkflowIdle /\ BreakpointIdle

DeliverySpec == DeliverySpecInit /\ [][DeliveryNext]_vars

FeedbackSpecInit == IdleJob /\ CommIdle /\ TaskIdle /\ ReplyIdle /\ ServerInit /\ NodeIdle /\ GrpcIdle /\ SecaggIdle /\ ManagerIdle /\ WorkflowIdle /\ BreakpointIdle

FeedbackSpec == FeedbackSpecInit /\ [][FeedbackNext]_vars

(***************************************************************************)
(* GrpcSpec: the researcher starts the server and calls it from its thread *)
(***************************************************************************)
GrpcNext ==
    \/ GrpcStart
    \/ AsyncStarted
    \/ \E failure \in StartFailures : AsyncStartFails(failure)
    \/ StartTest
    \/ StartBreak
    \/ StartWait
    \/ \E message_ok \in BOOLEAN, node_id \in ServerNodes : GrpcSend(message_ok, node_id)
    \/ \E message_ok \in BOOLEAN : GrpcBroadcast(message_ok)
    \/ \E op \in {"get_all_nodes", "get_node", "is_alive"} : GrpcQuery(op)
    \/ \E n \in ServerNodes : GrpcPoll(n)
    \/ \E h \in DOMAIN handlers : Retrieve(h)
    \/ \E h \in DOMAIN handlers : SetActive(h)

GrpcSpecInit == IdleJob /\ CommIdle /\ TaskIdle /\ ReplyIdle /\ ServerInit /\ NodeIdle /\ GrpcInit /\ SecaggIdle /\ ManagerIdle /\ WorkflowIdle /\ BreakpointIdle

GrpcSpec == GrpcSpecInit /\ [][GrpcNext]_vars

(***************************************************************************)
(* C1: in a round where every participating node delivers exactly one      *)
(* message for this job, the wait loop terminates, and when it has         *)
(* returned the recorded replies are exactly those of the nodes that       *)
(* replied successfully (one each) and the nodes removed from the node     *)
(* list are exactly those that failed or sent an error.                    *)
(***************************************************************************)
Succeeded == {n \in participating : outcome[n] = <<"ok">>}

Failed == {n \in participating : outcome[n] \in {<<"failed">>, <<"error">>}}

Removed == participating \ Range(nodes)

C1_RoundResult ==
    pc = "returned" =>
        /\ NodesDone(training_replies) = Succeeded
        /\ Len(training_replies) = Cardinality(Succeeded)
        /\ Removed = Failed
        /\ Succeeded \cup Failed = participating

C1_RoundCompletes == <>(pc \in {"returned", "extracted"}) /\ []C1_RoundResult

C1_Witness ==
    /\ pc = "returned"
    /\ participating = {"A", "B", "C"}
    /\ outcome["A"] = <<"ok">> /\ outcome["B"] = <<"failed">> /\ outcome["C"] = <<"ok">>
    /\ NodesDone(training_replies) = {"A", "C"}
    /\ Removed = {"B"}

(***************************************************************************)
(* C2: whenever the while test is evaluated and every node that was        *)
(* participating at dispatch has a recorded reply or has been removed,     *)
(* the loop stops waiting.                                                 *)
(***************************************************************************)
AllTerminal == participating \subseteq (NodesDone(training_replies) \cup Removed)

C2_StopsWhenAllTerminal ==
    (pc = "while" /\ AllTerminal) => ~waiting_for_nodes(training_replies, nodes)

(***************************************************************************)
(* C3: during the wait loop the node list only shrinks, a removed node is  *)
(* never back in the list, and no reply of a removed node is recorded      *)
(* after its removal.                                                      *)
(***************************************************************************)
NewReplies ==
    {training_replies'[i].node_id :
        i \in DOMAIN training_replies' \ DOMAIN training_replies}

RemovalStep ==
    pc \in {"while", "for"} =>
        /\ Range(nodes') \subseteq Range(nodes)
        /\ \A n \in Removed : n \notin Range(nodes') /\ n \notin NewReplies

C3_RemovalMonotonic == [][RemovalStep]_vars

\* a node was removed by an error message and sent a successful reply afterwards
C3_Witness ==
    /\ pc = "for"
    /\ "A" \in Removed
    /\ outcome["A"] = <<"error", "ok">>
    /\ "A" \notin NodesDone(training_replies)

(***************************************************************************)
(* C4 (as stated): for a fixed multiset of messages from the participating *)
(* nodes, the outcome of the round is the same for every arrival order.    *)
(***************************************************************************)
C4_Commutative == comm.stage = "second" => comm.first = comm.second

(***************************************************************************)
(* C4 (amended): when the multiset holds at most one message per           *)
(* participating node, the outcome of the round (termination, recorded     *)
(* replies, remaining node list) is the same for every arrival order and   *)
(* every cut into batches.                                                 *)
(***************************************************************************)
OnePerNode(ms) == \A i, j \in DOMAIN ms : ms[i].node_id = ms[j].node_id => i = j

C4_CommutativeOnePerNode ==
    (comm.stage = "second" /\ OnePerNode(comm.msgs)) => comm.first = comm.second

C4_Witness ==
    /\ comm.stage = "second"
    /\ OnePerNode(comm.msgs)
    /\ Len(comm.msgs) = 2
    /\ comm.order # comm.msgs
    /\ comm.first.terminated
    /\ comm.first.nodes # comm.nodes
    /\ comm.first.replies # {}

(***************************************************************************)
(* C5: the train request sent to node n embeds no entry that optim_aux_var *)
(* keys under another node: the shared part holds no entry keyed by a node *)
(* id other than n, and the per-node part is n's own slice.                *)
(***************************************************************************)
SharedPart(n) == requests[n][1]

NodePart(n) == requests[n][2]

LeaksTo(n) ==
    \/ /\ ~IsNone(SharedPart(n))
       /\ \E mod \in DOMAIN SharedPart(n) :
             \E m \in Nodes \ {n} : m \in DOMAIN SharedPart(n)[mod]
    \/ /\ ~IsNone(NodePart(n))
       /\ \E mod \in DOMAIN NodePart(n) :
             \/ mod \notin DOMAIN optim_aux_var
             \/ n \notin DOMAIN optim_aux_var[mod]
             \/ NodePart(n)[mod] # optim_aux_var[mod][n]

C5_NoLeakToOtherNode == pc = "while" => \A n \in DOMAIN requests : ~LeaksTo(n)

(***************************************************************************)
(* C6: the result of extract_received_optimizer_aux_var_from_round holds   *)
(* result[m][n] = v for every recorded reply of node n with value v for    *)
(* module m, and holds no other entry.                                     *)
(***************************************************************************)
C6_Regroup ==
    pc = "extracted" =>
        /\ \A i \in DOMAIN training_replies :
              \A mod \in DOMAIN training_replies[i].optim_aux_var :
                 /\ mod \in DOMAIN aux_var
                 /\ training_replies[i].node_id \in DOMAIN aux_var[mod]
                 /\ aux_var[mod][training_replies[i].node_id]
                        = training_replies[i].optim_aux_var[mod]
        /\ \A mod \in DOMAIN aux_var : \A n \in DOMAIN aux_var[mod] :
              \E i \in DOMAIN training_replies :
                 /\ training_replies[i].node_id = n
                 /\ mod \in DOMAIN training_replies[i].optim_aux_var
                 /\ training_replies[i].optim_aux_var[mod] = aux_var[mod][n]

(***************************************************************************)
(* C7: for a serialized task of length L >= 1 and frame limit M,           *)
(* GetTaskUnary yields n = ceil(L/M) frames, each with size = n, with      *)
(* iteration 1..n in order and a payload of at most M bytes, and the       *)
(* payloads concatenated in order are the task bytes.                      *)
(***************************************************************************)
LastTask == sent_tasks[Len(sent_tasks)]

RECURSIVE Concat(_)
Concat(frames) ==
    IF frames = <<>> THEN <<>> ELSE Head(frames).bytes_ \o Concat(Tail(frames))

C7_Chunking ==
    (sent_tasks # <<>> /\ Len(LastTask) >= 1) =>
        LET n == Len(task_frames)
        IN  /\ n * max_bytes >= Len(LastTask)
            /\ (n - 1) * max_bytes < Len(LastTask)
            /\ \A k \in 1..n :
                  /\ task_frames[k].size = n
                  /\ task_frames[k].iteration = k
                  /\ Len(task_frames[k].bytes_) <= max_bytes
            /\ Concat(task_frames) = LastTask

C7_Witness ==
    /\ sent_tasks # <<>>
    /\ Len(LastTask) = 3
    /\ max_bytes = 2
    /\ Len(task_frames) = 2
    /\ Len(task_frames[2].bytes_) = 1

(***************************************************************************)
(* C8: an empty serialized payload is streamed as exactly one frame, with  *)
(* size = 1 and iteration = 1.                                             *)
(***************************************************************************)
C8_EmptyPayloadOneFrame ==
    (sent_tasks # <<>> /\ LastTask = <<>>) =>
        /\ Len(task_frames) = 1
        /\ task_frames[1].size = 1
        /\ task_frames[1].iteration = 1

(***************************************************************************)
(* C9: the frames of every streamed buffer, read in order by get_tasks,    *)
(* deliver exactly that buffer to the callback, once, upon the last frame: *)
(* while frames of the last buffer remain the callback has fired for the   *)
(* earlier buffers only, and once the stream is read it has fired for all. *)
(***************************************************************************)
Front(q) == SubSeq(q, 1, Len(q) - 1)

C9_RoundTrip ==
    node_pc \in {"recv", "poll"} =>
        IF task_stream # <<>>
        THEN on_message_calls = Front(sent_tasks)
        ELSE on_message_calls = sent_tasks

(***************************************************************************)
(* C10: no buffer is decoded and dispatched by ReplyTask unless each of    *)
(* the frames it was assembled from carried the index "frames accumulated  *)
(* so far plus one".                                                       *)
(***************************************************************************)
InSequence(frames) == \A k \in DOMAIN frames : frames[k].iteration = k

C10_NoTruncatedDispatch ==
    \A i \in DOMAIN on_reply_calls : InSequence(on_reply_calls[i].frames)

(***************************************************************************)
(* C11: every buffer ReplyTask decodes and dispatches is the concatenation *)
(* of the payloads of the frames received since the previous completed     *)
(* message of the stream (or since the stream was opened), and the buffer  *)
(* under assembly holds the payloads of the frames received since then     *)
(* only: no byte of an earlier message is in it.                           *)
(***************************************************************************)
C11_ResetAfterMessage ==
    /\ \A i \in DOMAIN on_reply_calls :
          on_reply_calls[i].reply = Concat(on_reply_calls[i].frames)
    /\ srv_pc = "iter" => srv_reply = Concat(cur_frames)

\* a stream has carried a non-empty message and then a second message
C11_Witness ==
    \E i \in DOMAIN on_reply_calls :
        /\ i > 1
        /\ on_reply_calls[i].nth = 2
        /\ on_reply_calls[i - 1].reply # <<>>
        /\ on_reply_calls[i].reply # on_reply_calls[i - 1].reply

(***************************************************************************)
(* C12: for every registered node, the tasks returned to its polls so far, *)
(* followed by the tasks still in the queue of its agent, are the messages *)
(* passed to send / broadcast for that node while its agent was not        *)
(* Disconnected, in the order they were sent; a node that is not           *)
(* registered is returned nothing.                                         *)
(***************************************************************************)
Accepted(n) ==
    LET kept == SelectSeq(sent[n], LAMBDA e : e.status # "Disconnected")
    IN  [i \in DOMAIN kept |-> kept[i].msg]

TakesOneTask(h) ==
    (handlers[h].pc = "get_task" /\ handlers'[h].pc = "done") =>
        LET queue == agents[handlers[h].agent].queue
        IN  /\ handlers'[h].tasks = <<Head(queue)>>
            /\ handlers'[h].frames = GetTaskFrames(Dumps(Head(queue)), max_bytes)
            /\ Concat(handlers'[h].frames) = Dumps(Head(queue))
            /\ agents'[handlers[h].agent].queue = Tail(queue)
            /\ \A i \in DOMAIN agents :
                  i # handlers[h].agent => agents'[i].queue = agents[i].queue

GetTaskStep == \A h \in DOMAIN handlers : TakesOneTask(h)

C13_OneTaskPerPoll == [][GetTaskStep]_vars

\* a poll has returned the first of two queued tasks, the second is still queued
C13_Witness ==
    \E h \in DOMAIN handlers :
        /\ handlers[h].pc = "done"
        /\ handlers[h].tasks = <<1>>
        /\ agents[handlers[h].agent].queue = <<2>>

(***************************************************************************)
(* C14: all GetTaskUnary handlers that have looked up the same node id     *)
(* hold the same agent, and the agents created so far are one per          *)
(* registered node id, the one the agent store maps the node id to.        *)
(***************************************************************************)
AgentsOf(n) == {i \in DOMAIN agents : agents[i].id = n}

C14_OneAgentPerNode ==
    /\ \A h1, h2 \in DOMAIN handlers :
          (/\ handlers[h1].node = handlers[h2].node
           /\ handlers[h1].agent # 0
           /\ handlers[h2].agent # 0) => handlers[h1].agent = handlers[h2].agent
    /\ \A n \in ServerNodes :
          IF n \in DOMAIN agent_store
          THEN AgentsOf(n) = {agent_store[n]}
          ELSE AgentsOf(n) = {}

\* every handler polls for node A; the first one called has not looked the
\* agent up yet while the others, called after it, have: the agent was
\* created during the call of the first handler, by another handler
C14_Witness ==
    /\ Len(handlers) = MaxHandlers
    /\ \A h \in DOMAIN handlers : handlers[h].node = "A"
    /\ handlers[1].pc = "retrieve"
    /\ "A" \in DOMAIN agent_store
    /\ \A h \in DOMAIN handlers : h > 1 => handlers[h].agent = agent_store["A"]
    /\ Len(agents) = 1

(***************************************************************************)
(* C15: a broadcast appends the message to the queue of every agent that   *)
(* is not Disconnected and leaves the queue of every Disconnected agent as *)
(* it was: nothing is added to it and nothing is removed from it.          *)
(***************************************************************************)
BroadcastStep ==
    (last_op'.op = "broadcast" /\ last_op'.msg = last_op.msg + 1) =>
        \A i \in DOMAIN agents :
            agents'[i].queue = IF agents[i].status = "Disconnected"
                               THEN agents[i].queue
                               ELSE Append(agents[i].queue, last_op'.msg)

FeedbackStep ==
    Len(feedback_reqs') = Len(feedback_reqs) + 1 =>
        LET request == feedback_reqs'[Len(feedback_reqs')]
        IN  /\ feedback_calls' =
                  Append(feedback_calls,
                         [message |-> request.value,
                          type |-> IF request.one_of = "log" THEN "LOG" ELSE "SCALAR"])
            /\ UNCHANGED <<agent_store, agents, handlers, returned>>

C16_FeedbackBypass == [][FeedbackStep]_vars

\* feedback was handled while a task was queued and a poll was waiting
C16_Witness ==
    /\ Len(feedback_calls) = 1
    /\ feedback_calls[1].type = "SCALAR"
    /\ \E n \in DOMAIN agent_store : agents[agent_store[n]].queue # <<>>
    /\ \E h \in DOMAIN handlers : handlers[h].pc = "get_task"

(***************************************************************************)
(* C17: a GetTaskUnary call of get_tasks that ends with DEADLINE_EXCEEDED  *)
(* or UNAVAILABLE does not end the polling loop: the loop sleeps 2 seconds *)
(* and, unless shutdown is requested, then issues a new poll, however many *)
(* such errors came in a row.                                              *)
(***************************************************************************)
Retryable == {"DEADLINE_EXCEEDED", "UNAVAILABLE"}

RetryStep ==
    (errors' = errors + 1 /\ last_error' \in Retryable) =>
        (node_pc' = "backoff" /\ backoff' = 2)

C17_RetryAfterBackoff ==
    /\ [][RetryStep]_vars
    /\ (node_pc = "backoff" /\ ~shutdown) ~> (node_pc = "wait" \/ shutdown)

\* a new poll is pending after two transport errors in a row
C17_Witness ==
    /\ streak = MaxErrors
    /\ last_error = "UNAVAILABLE"
    /\ node_pc = "wait"
    /\ ~shutdown

(***************************************************************************)
(* C18: a call of Node.on_message with a request whose command is unknown  *)
(* or missing returns without raising, adds no task to the task queue and  *)
(* sends exactly one message, an error message: the gRPC client has queued *)
(* it for the researcher.                                                  *)
(***************************************************************************)
UnknownOrMissing(request) == request.command \in {"unknown", None}

C18_UnknownCommandReported ==
    \A i \in DOMAIN calls :
        (calls[i].by = "on_message" /\ UnknownOrMissing(calls[i].request)) =>
            /\ calls[i].raised = None
            /\ calls[i].ntasks = 0
            /\ Len(calls[i].queued) = 1
            /\ calls[i].queued[1].command = "error"

(***************************************************************************)
(* C19: every error message the node hands to the gRPC client while        *)
(* handling a request that carries a researcher_id, in on_message or in    *)
(* task_manager, has the researcher_id of that request.                    *)
(***************************************************************************)
C19_ErrorAddressedToSender ==
    \A i \in DOMAIN calls : \A k \in DOMAIN calls[i].sends :
        (calls[i].sends[k].command = "error" /\ calls[i].request.researcher_id # None) =>
            calls[i].sends[k].researcher_id = calls[i].request.researcher_id

(***************************************************************************)
(* C20: whatever frame the ReplyTask handler receives, complete message    *)
(* that fails to decode included, the handler is still iterating the       *)
(* stream afterwards, ready to reassemble the next message.                *)
(***************************************************************************)
KeepsServingStep ==
    (srv_pc = "iter" /\ nframes' = nframes + 1) => srv_pc' = "iter"

C20_AbortsOnlyTheMessage == [][KeepsServingStep]_vars

(***************************************************************************)
(* C21: Job.save_state completes for the replies recorded by the round,    *)
(* and in the state it returns no reply holds a 'params' entry and every   *)
(* reply holds a 'params_path' entry.                                      *)
(***************************************************************************)
C21_ParamsByPath ==
    saved_state # NoneDict =>
        /\ saved_state.raised = None
        /\ Len(saved_state.training_replies) = Len(training_replies)
        /\ \A i \in DOMAIN saved_state.training_replies :
              /\ "params" \notin DOMAIN saved_state.training_replies[i]
              /\ "params_path" \in DOMAIN saved_state.training_replies[i]

(***************************************************************************)
(* C22: a call of send or broadcast with a message that is no Message, and *)
(* a call of send, broadcast, get_all_nodes, get_node or is_alive while    *)
(* the started event is not set, raises FedbiomedCommunicationError,       *)
(* schedules no coroutine and leaves the agent store and every queue as    *)
(* they were.                                                              *)
(***************************************************************************)
RaisesBeforeSchedulingStep ==
    (napi' = napi + 1 /\ (~api_last'.message_ok \/ ~is_started)) =>
        /\ api_last'.raised = "FedbiomedCommunicationError"
        /\ ~api_last'.scheduled
        /\ UNCHANGED serverVars

C22_RaisesBeforeScheduling == [][RaisesBeforeSchedulingStep]_vars

\* on a started server whose node holds a queued message, send was called
\* with an object that is no Message
C22_Witness ==
    /\ api_last.op = "send"
    /\ ~api_last.message_ok
    /\ api_last.started
    /\ api_last.raised = "FedbiomedCommunicationError"
    /\ \E i \in DOMAIN agents : agents[i].queue # <<>>

(***************************************************************************)
(* C23: when _GrpcAsyncServer.start fails before the server is started,    *)
(* the call of GrpcServer.start ends by raising that failure to its        *)
(* caller, and the started event is never set.                             *)
(***************************************************************************)
C23_StartFailurePropagates ==
    thread = "ended" =>
        /\ ~is_started
        /\ start_pc \in {"returned", "raised"} => start_raised \in StartFailures

(***************************************************************************)
(* C24: once stop() has been called on a started client, get_tasks and the *)
(* send-queue listener both eventually leave their loops, and get_tasks    *)
(* issues no GetTaskUnary call once its while test found the shutdown      *)
(* event set.                                                              *)
(***************************************************************************)
StopCalled == shutdown \/ stop_raised # None

LoopsLeft ==
    /\ node_pc \in {"stopped", "cancelled", "failed"}
    /\ listener_pc \in {"stopped", "cancelled"}

\* get_tasks has observed the shutdown event once its while test found it set
NoPollAfterShutdownStep == node_pc = "stopped" => polls' = polls

C24_StopEndsLoops ==
    /\ StopCalled ~> LoopsLeft
    /\ [][NoPollAfterShutdownStep]_vars

(***************************************************************************)
(* C25: setup sends the request to every party but the researcher; it      *)
(* raises FedbiomedSecaggError exactly when a node that is no party has    *)
(* answered or a party has not answered; otherwise it returns True exactly *)
(* when the recorded (last) answer of every party reports success.         *)
(***************************************************************************)
NodeParties == Range(secagg.parties) \ {RESEARCHER_ID}

Answered(n) == \E i \in DOMAIN secagg.responses : secagg.responses[i].node_id = n

\* the last answer of node n reports success
LastSuccess(n) ==
    LET last == CHOOSE i \in DOMAIN secagg.responses :
                    /\ secagg.responses[i].node_id = n
                    /\ \A j \in DOMAIN secagg.responses :
                          secagg.responses[j].node_id = n => j <= i
    IN  secagg.responses[last].success

C25_SetupOutcome ==
    secagg.stage = "done" =>
        /\ Range(secagg.sent) = NodeParties
        /\ Len(secagg.sent) = Cardinality(NodeParties)
        /\ secagg.result.raised = "FedbiomedSecaggError" <=>
              \/ \E n \in Nodes \ NodeParties : Answered(n)
              \/ \E n \in NodeParties : ~Answered(n)
        /\ secagg.result.raised = None =>
              (secagg.result.returned <=> \A n \in NodeParties : LastSuccess(n))

\* every party answered, one of them first with a failure and then with a
\* success: setup returns True
C25_Witness ==
    /\ secagg.stage = "done"
    /\ secagg.result = [raised |-> None, returned |-> TRUE]
    /\ secagg.status
    /\ \E i \in DOMAIN secagg.responses : ~secagg.responses[i].success

(***************************************************************************)
(* C26: after any sequence of add, get and remove calls the table holds at *)
(* most one entry per secagg_id; add for a secagg_id that has an entry     *)
(* raises FedbiomedSecaggError and leaves the table unchanged; a remove    *)
(* that returns, returns True exactly when an entry existed, which is then *)
(* gone, and False, with the table unchanged, otherwise.                   *)
(***************************************************************************)
Has(tbl, secagg_id) == \E i \in DOMAIN tbl : tbl[i].secagg_id = secagg_id

C26_OneEntryPerId ==
    /\ \A i, j \in DOMAIN table : table[i].secagg_id = table[j].secagg_id => i = j
    /\ (mgr_last.op = "add" /\ Has(mgr_last.before, mgr_last.secagg_id)) =>
          /\ mgr_last.raised = "FedbiomedSecaggError"
          /\ table = mgr_last.before
    /\ (mgr_last.op = "remove" /\ mgr_last.raised = None) =>
          /\ mgr_last.returned = "True" <=> Has(mgr_last.before, mgr_last.secagg_id)
          /\ mgr_last.returned = "False" <=> ~Has(mgr_last.before, mgr_last.secagg_id)
          /\ ~Has(table, mgr_last.secagg_id)
          /\ mgr_last.returned = "False" => table = mgr_last.before
    /\ (mgr_last.op = "remove" /\ manager = "biprime") => mgr_last.raised = None

\* a second add for the same secagg_id was refused, the other entry is there
C26_Witness ==
    /\ mgr_last.op = "add"
    /\ mgr_last.raised = "FedbiomedSecaggError"
    /\ Len(table) = 2

(***************************************************************************)
(* C27: get and remove of the servkey manager for a secagg_id whose entry  *)
(* belongs to another job raise FedbiomedSecaggError and leave the entry   *)
(* in the table; an entry that remove took out of the table was added with *)
(* the job_id of that call.                                                *)
(***************************************************************************)
EntryJob(tbl, secagg_id) ==
    LET i == CHOOSE k \in DOMAIN tbl : tbl[k].secagg_id = secagg_id
    IN  tbl[i].job_id

C27_OtherJobRefused ==
    (manager = "servkey" /\ mgr_last.op \in {"get", "remove"}
        /\ Has(mgr_last.before, mgr_last.secagg_id)) =>
        IF EntryJob(mgr_last.before, mgr_last.secagg_id) # mgr_last.job_id
        THEN /\ mgr_last.raised = "FedbiomedSecaggError"
             /\ table = mgr_last.before
        ELSE /\ mgr_last.raised = None
             /\ mgr_last.op = "remove" => ~Has(table, mgr_last.secagg_id)

\* remove was refused for an entry of another job, which is still there
C27_Witness ==
    /\ manager = "servkey"
    /\ mgr_last.op = "remove"
    /\ mgr_last.raised = "FedbiomedSecaggError"
    /\ Has(table, mgr_last.secagg_id)
    /\ mgr_last.job_id # None

(***************************************************************************)
(* C28: after set_training_data(None, from_tags=True) or                   *)
(* set_training_data(<FederatedDataSet>) has set the training data,        *)
(* nodes() is the list of the node ids of the new training data, whatever  *)
(* the nodes filter was before.                                            *)
(***************************************************************************)
SetFromTagsOrObject ==
    /\ wf_last.op = "set_training_data"
    /\ wf_last.raised = None
    /\ \/ wf_last.argument = NoneDict /\ wf_last.from_tags
       \/ wf_last.argument # NoneDict /\ wf_last.argument.type = "FederatedDataSet"

C28_NodesFollowTrainingData ==
    SetFromTagsOrObject => nodes_getter = [nodes |-> node_ids(fds.data)]

C29_WitnessRefused ==
    /\ wf_last.op = "set_training_data"
    /\ wf_last.from_tags
    /\ wf_last.argument # NoneDict
    /\ wf_last.raised # None
    /\ wf_tags # NoneDict

(***************************************************************************)
(* C30: a send(message, node_id) for a node_id that has no registered      *)
(* agent creates no agent and leaves the agent store, every agent and its  *)
(* queue, and every handler unchanged; the message it discards is never in *)
(* a queue and is never returned to a poll, also not to the polls the node *)
(* makes later.                                                            *)
(***************************************************************************)
\* the messages passed to send for a node that had no agent
Discarded ==
    {t \in 1..last_op.msg : \A n \in ServerNodes : \A i \in DOMAIN sent[n] : sent[n][i].msg # t}

SendToUnregisteredStep ==
    (last_op'.op = "send" /\ last_op'.msg = last_op.msg + 1 /\ sent' = sent) =>
        /\ agent_store' = agent_store
        /\ agents' = agents
        /\ handlers' = handlers
        /\ returned' = returned

NeverDelivered ==
    \A t \in Discarded :
        /\ \A i \in DOMAIN agents : \A k \in DOMAIN agents[i].queue : agents[i].queue[k] # t
        /\ \A n \in ServerNodes : \A k \in DOMAIN returned[n] : returned[n][k] # t
        /\ \A h \in DOMAIN handlers : \A k \in DOMAIN handlers[h].tasks : handlers[h].tasks[k] # t

C30_SendToUnregisteredDiscards == [][SendToUnregisteredStep]_vars /\ []NeverDelivered

\* a message was discarded; every node has registered since and its poll is
\* waiting on an empty queue
C30_Witness ==
    /\ Discarded # {}
    /\ DOMAIN agent_store = ServerNodes
    /\ \A n \in ServerNodes :
          /\ agents[agent_store[n]].queue = <<>>
          /\ returned[n] = <<>>
          /\ \E h \in DOMAIN handlers : handlers[h].node = n /\ handlers[h].pc = "get_task"

(***************************************************************************)
(* C31: a queued task is delivered at most once: it is out of the queue of *)
(* the agent from the step in which a GetTaskUnary handler obtains it,     *)
(* before any frame is streamed; it is held by one handler only, it is not *)
(* put back in a queue when the stream is aborted before its last frame,   *)
(* and it is returned to one poll of the node only.                        *)
(***************************************************************************)
Holders(t) == {h \in DOMAIN handlers : \E k \in DOMAIN handlers[h].tasks : handlers[h].tasks[k] = t}

Queued(t) ==
    {<<i, k>> \in (DOMAIN agents) \X (1..MaxSends) :
        k \in DOMAIN agents[i].queue /\ agents[i].queue[k] = t}

Returns(t) ==
    {<<n, k>> \in ServerNodes \X (1..MaxSends) :
        k \in DOMAIN returned[n] /\ returned[n][k] = t}

C31_AtMostOnce ==
    \A t \in 1..last_op.msg :
        /\ Cardinality(Holders(t)) + Cardinality(Queued(t)) <= 1
        /\ Cardinality(Returns(t)) = Cardinality(Holders(t))

\* the stream of task 2 was aborted after its first frame; a later poll of
\* the same node waits on the empty queue
C31_Witness ==
    \E h1, h2 \in DOMAIN handlers :
        /\ handlers[h1].pc = "aborted"
        /\ handlers[h1].tasks = <<2>>
        /\ Len(handlers[h1].frames) = 1
        /\ h2 > h1
        /\ handlers[h2].node = handlers[h1].node
        /\ handlers[h2].pc = "get_task"
        /\ agents[handlers[h2].agent].queue = <<>>

(***************************************************************************)
(* C32: in every state of the wait loop the replies recorded for the round *)
(* hold at most one reply per node, and only replies of nodes that are in  *)
(* the node list of the job.                                               *)
(***************************************************************************)
C32_OneReplyPerListedNode ==
    pc \in {"while", "for"} =>
        /\ \A i, j \in DOMAIN training_replies :
              training_replies[i].node_id = training_replies[j].node_id => i = j
        /\ NodesDone(training_replies) \subseteq Range(nodes)

(***************************************************************************)
(* C33: in every state of the for loop, handling a message of another job  *)
(* or of another researcher, train reply or error message, leaves the node *)
(* list and the recorded replies as they are.                              *)
(***************************************************************************)
OtherJobOrResearcher(m) ==
    \/ m.researcher_id # RESEARCHER_ID
    \/ m.command # "error" /\ m.job_id # JobId

C33_ForeignMessageIgnored ==
    pc = "for" =>
        \A m \in Messages :
            OtherJobOrResearcher(m) =>
                HandleMessage([nodes |-> nodes, replies |-> training_replies], m)
                    = [nodes |-> nodes, replies |-> training_replies]

(***************************************************************************)
(* C34: when a ReplyTask stream ends while frames of a message have        *)
(* arrived but not the frame with iteration = size, the handler returns    *)
(* its acknowledgement and calls no on_reply; every buffer handed to       *)
(* on_reply ends with a frame whose iteration equals its size.             *)
(***************************************************************************)
EndsIncompleteStep ==
    (srv_pc = "iter" /\ cur_frames # <<>> /\ nframes' = nframes) =>
        /\ srv_pc' = "returned"
        /\ on_reply_calls' = on_reply_calls
        /\ srv_dispatched' = srv_dispatched

CompleteWhenDispatched ==
    \A i \in DOMAIN on_reply_calls :
        LET frames == on_reply_calls[i].frames
        IN  /\ frames # <<>>
            /\ frames[Len(frames)].size = frames[Len(frames)].iteration
            /\ \A k \in 1..(Len(frames) - 1) : frames[k].size # frames[k].iteration

C34_IncompleteDiscarded == [][EndsIncompleteStep]_vars /\ []CompleteWhenDispatched

\* a stream has delivered one message and ended in the middle of the next
C34_Witness ==
    /\ srv_pc = "returned"
    /\ cur_frames # <<>>
    /\ srv_reply # <<>>
    /\ Len(on_reply_calls) = 1

(***************************************************************************)
(* C35: every call of Node.on_message has exactly one effect: one task is  *)
(* added to the task queue and no message is handed to the gRPC client     *)
(* (well-formed train and secagg requests), or no task is added and one    *)
(* message is handed to the gRPC client (every other request).             *)
(***************************************************************************)
QueuedCommand(request) == request.command \in {"train", "secagg"} /\ request.fmt = "ok"

C35_OneEffectPerRequest ==
    \A i \in DOMAIN calls :
        calls[i].by = "on_message" =>
            IF QueuedCommand(calls[i].request)
            THEN calls[i].ntasks = 1 /\ Len(calls[i].sends) = 0
            ELSE calls[i].ntasks = 0 /\ Len(calls[i].sends) = 1

(***************************************************************************)
(* C36: the loop of Node.task_manager is never left: no exception leaves   *)
(* the processing of an item, and every item taken from the queue has been *)
(* marked done, once.                                                      *)
(***************************************************************************)
ItemsTaken == {i \in DOMAIN calls : calls[i].by = "task_manager"}

C36_TaskManagerSurvives ==
    /\ tm_raised = None
    /\ tasks_done = Cardinality(ItemsTaken)

(***************************************************************************)
(* C37: after a call of setup, status() is True only if that call returned *)
(* True; after a call that raised FedbiomedSecaggError status() is False,  *)
(* whatever the earlier calls of setup on the object did.                  *)
(***************************************************************************)
C37_StatusFollowsLastSetup ==
    secagg.stage = "done" =>
        /\ secagg.status => secagg.result = [raised |-> None, returned |-> TRUE]
        /\ secagg.result.raised # None => ~secagg.status

(***************************************************************************)
(* C38: _load_training_replies applied to the list _save_training_replies  *)
(* returned gives a mapping with the round numbers of the training replies *)
(* that were saved, each with the replies of that round.                   *)
(***************************************************************************)
RepliesOf(replies) == [k \in DOMAIN replies |-> replies[k].node_id]

C38_RoundsPreserved ==
    bk_pc = "loaded" =>
        /\ loaded.raised = None
        /\ DOMAIN loaded.training_replies = DOMAIN round_replies0
        /\ \A r \in DOMAIN round_replies0 :
              RepliesOf(loaded.training_replies[r]) = RepliesOf(round_replies0[r])

(***************************************************************************)
(* C40: after _save_training_replies has returned, the training replies of *)
(* the job are what they were before the call, and each of them holds its  *)
(* 'params' entry.                                                         *)
(***************************************************************************)
C40_SavedOnACopy ==
    bk_pc \in {"saved", "loaded"} =>
        /\ round_replies = round_replies0
        /\ \A r \in DOMAIN round_replies : \A k \in DOMAIN round_replies[r] :
              "params" \in DOMAIN round_replies[r][k]

\* two replies of a round were saved without 'params'; the job still holds
\* them with 'params'
C40_Witness ==
    /\ bk_pc = "saved"
    /\ \E i \in DOMAIN bkpt :
          /\ Len(bkpt[i]) = 2
          /\ \A k \in DOMAIN bkpt[i] : "params" \notin DOMAIN bkpt[i][k]
    /\ \E r \in DOMAIN round_replies :
          /\ Len(round_replies[r]) = 2
          /\ \A k \in DOMAIN round_replies[r] : round_replies[r][k].params = "params"

(***************************************************************************)
(* C39: once the server is started, GrpcServer.start returns: the loop     *)
(* that waits for a first node makes at most                               *)
(* MAX_GRPC_SERVER_SETUP_TIMEOUT - GPRC_SERVER_SETUP_TIMEOUT + 1 waits of  *)
(* one second, start returns at the first test that finds a registered     *)
(* node, and it returns after the last wait when no node ever registers;   *)
(* the server thread keeps serving.                                        *)
(***************************************************************************)
InStart == start_pc \in {"sleep", "slept", "wait"}

WaitsBounded ==
    sleep_ <= MAX_GRPC_SERVER_SETUP_TIMEOUT - GPRC_SERVER_SETUP_TIMEOUT + 1

\* a step of the caller inside start(), of a server that is started
StartReturnStep ==
    /\ (start_pc \in {"sleep", "slept"} /\ start_pc' # start_pc /\ is_started
            /\ StoreGetAll(agent_store) # {})
         => start_pc' = "returned"
    /\ (start_pc # "returned" /\ start_pc' = "returned")
         => /\ thread' = "serving"
            /\ \/ StoreGetAll(agent_store) # {}
               \/ sleep_ = MAX_GRPC_SERVER_SETUP_TIMEOUT - GPRC_SERVER_SETUP_TIMEOUT + 1

C39_StartReturns ==
    /\ []WaitsBounded
    /\ [][StartReturnStep]_vars
    /\ (InStart /\ is_started) ~> (start_pc = "returned")

\* start() has returned after the greatest number of waits, of at least two,
\* and no node is registered
C39_Witness ==
    /\ start_pc = "returned"
    /\ is_started
    /\ StoreGetAll(agent_store) = {}
    /\ sleep_ >= 2
    /\ sleep_ = MAX_GRPC_SERVER_SETUP_TIMEOUT - GPRC_SERVER_SETUP_TIMEOUT + 1

====
